---- MODULE Spec2Model ----
(***************************************************************************)
(* Model of the node-graph canvas engine of nodio                          *)
(* (crates/nodio-gui-nodes/src/lib.rs, struct Context) together with the   *)
(* host loop that drives it (crates/nodio-app/src/main.rs,                  *)
(* MyApp::interact_and_draw).                                              *)
(*                                                                         *)
(* One frame is  begin_frame ; show_node* ; add_link* ; end_frame , run by  *)
(* the host as one synchronous call (MyApp::interact_and_draw): the action *)
(* Frame.  The Context struct is the record ctx, with the field names of   *)
(* the source.  A failed unwrap() (a Rust panic) sets ctx.panicked and the *)
(* program stops.                                                          *)
(*                                                                         *)
(* Geometry is kept on the x axis: a position is an integer number of      *)
(* pixels, a rect is [min, max] with egui's inclusive contains/intersects. *)
(* Uuid values are strings and an Option<Uuid> is None or the id; any      *)
(* other Option<T> is the sequence <<>> or <<x>>.                          *)
(***************************************************************************)
EXTENDS Integers, Sequences, FiniteSets, TLC

VARIABLES
    ctx,      \* the Context struct (lib.rs:33-91), as it is between two frames
    host,     \* the host application: what it declares each frame (main.rs:93-100)
    frames,   \* the number of frames run so far
    fan       \* the fan-out of one end pin: the arguments and results of
              \* link_count_for_end_pin and calculate_link_end_pos

vars == <<ctx, host, frames, fan>>

----------------------------------------------------------------------------
(* Bounds of the model *)

\* the pointer visits the cells 0..MaxCell of the canvas
MaxCell == 7
\* a run has at most this many frames
MaxFrames == 5
\* the host changes its node and link lists at most this many times
MaxHostEdits == 1
\* node origins stay within the cells 0..MaxOriginCell
MaxOriginCell == 4
\* the pan offset stays within -MaxPanCell..MaxPanCell cells
MaxPanCell == 1
\* the host of the fan-out steps declares up to MaxFanLinks links
MaxFanLinks == 4

----------------------------------------------------------------------------
(* Program constants *)

None == "none"
NilId == "nil"

PinHoverRadius == 25
PinHoverShapeRadius == 15
PinOffset == 0
LinkHoverDistance == 10
DefaultOrigin == 100

EnableLinkDetachWithDragClick == 1
EnableLinkCreationOnSnap == 2

LinkStarted == 1
LinkDropped == 2
LinkCreated == 4

\* bit test / bit set on the usize bit masks (flag is a power of two)
HasFlag(mask, flag) == (mask \div flag) % 2 = 1
WithFlag(mask, flag) == IF HasFlag(mask, flag) THEN mask ELSE mask + flag

\* io: IO::default() (the field is private and never assigned)
IoEmulateThreeButtonMouse == "None"
IoLinkDetachWithModifierClick == "None"

\* Modifiers::is_active
ModifiersIsActive(m, mods) == IF m = "None" THEN FALSE ELSE m \in mods

----------------------------------------------------------------------------
(* Geometry *)

\* the pointer is sampled on a grid whose cells are two hover radii wide, so that
\* the centre of a node, its pins and the gap between two nodes are distinct cells
CellSize == 2 * PinHoverRadius
\* width of the rect egui lays out for a node (contents plus padding)
NodeWidth == 2 * CellSize

Abs(x) == IF x < 0 THEN -x ELSE x
Min(a, b) == IF a < b THEN a ELSE b
Max(a, b) == IF a < b THEN b ELSE a

Rect(lo, hi) == [min |-> lo, max |-> hi]
\* egui::Rect::contains
RectContains(r, p) == r.min <= p /\ p <= r.max
\* egui::Rect::intersects
RectIntersects(a, b) == a.min <= b.max /\ b.min <= a.max

\* Style::get_screen_space_pin_coordinates
PinCoordinates(node_rect, kind) ==
    IF kind = "Input" THEN node_rect.min - PinOffset ELSE node_rect.max + PinOffset

----------------------------------------------------------------------------
(* Sequences and insertion-ordered maps (IndexMap: a key sequence and a function) *)

RECURSIVE SeqFilterOut(_, _)
\* Vec::retain(|x| x \notin drop)
SeqFilterOut(s, drop) ==
    IF s = <<>> THEN <<>>
    ELSE IF Head(s) \in drop THEN SeqFilterOut(Tail(s), drop)
         ELSE <<Head(s)>> \o SeqFilterOut(Tail(s), drop)

RECURSIVE SeqKeep(_, _)
SeqKeep(s, keep) ==
    IF s = <<>> THEN <<>>
    ELSE IF Head(s) \in keep THEN <<Head(s)>> \o SeqKeep(Tail(s), keep)
         ELSE SeqKeep(Tail(s), keep)

Range(s) == {s[i] : i \in DOMAIN s}
Contains(s, x) == \E i \in DOMAIN s : s[i] = x

EmptyMap == [k \in {} |-> None]
MapPut(m, k, v) == [x \in (DOMAIN m) \cup {k} |-> IF x = k THEN v ELSE m[x]]
MapRestrict(m, keys) == [x \in (DOMAIN m) \cap keys |-> m[x]]

----------------------------------------------------------------------------
(* The host: the nodes, attributes and links it declares (main.rs:131-206) *)

Attr(id, kind, flags) == [id |-> id, kind |-> kind, flags |-> flags]

\* the origin the host passes to with_origin for a node
HostOrigin(n) ==
    CASE n = "n1" -> 0
      [] n = "n2" -> 4 * CellSize
      [] n = "n3" -> CellSize
      [] n = "n4" -> 3 * CellSize
      [] OTHER -> DefaultOrigin

\* the attributes a node can have; h is the host record
NodeAttributes(h, n) ==
    CASE n = "n1" -> <<Attr("p1", "Output", 0), Attr("p4", "Input", h.p4flags)>>
      [] n = "n2" -> <<Attr("p2", "Input", h.p2flags)>>
      [] n = "n3" -> <<Attr("p3", "Output", 0)>>
      [] n = "n4" -> <<Attr("p6", "Input", EnableLinkDetachWithDragClick)>>
      [] OTHER -> <<>>

\* the attributes the host adds to a node in this run
HostAttributes(h, n) ==
    LET Used(a) == a.id \in h.pins
    IN  SelectSeq(NodeAttributes(h, n), Used)

\* the pins of the links the host may declare: <<start, end>>
HostLinkPins(l) ==
    CASE l = "l1" -> <<"p1", "p2">>
      [] l = "l2" -> <<"p3", "p2">>
      [] l = "l3" -> <<"p1", "p9">>
      [] OTHER -> <<NilId, NilId>>

\* MyApp::default plus the profile of the run: the nodes and links the host
\* declares, the ones it may ever declare, the pins its nodes have, the flags it
\* gives pin p2, the cells the pointer is sampled at, whether it may leave the
\* canvas, whether the pan button is used, the attributes the pointer button may
\* go down on, and the number of frames and of host edits the run is followed for
Host(nodes, links) ==
    [nodes |-> nodes, links |-> links, nodePool |-> {}, linkPool |-> {},
     pins |-> {"p1", "p2", "p3", "p4"}, p2flags |-> 0, p4flags |-> 0,
     cells |-> 0..MaxCell, leave |-> {}, alts |-> {FALSE},
     attr_downs |-> {None}, budget |-> MaxFrames, edits |-> 0,
     edit_budget |-> MaxHostEdits]

\* what the host declares in a frame (main.rs:133-206)
DeclaredNodes(h) == Range(h.nodes)
DeclaredPins(h) ==
    UNION {{HostAttributes(h, n)[i].id : i \in DOMAIN HostAttributes(h, n)} :
              n \in Range(h.nodes)}
DeclaredLinks(h) == Range(h.links)

----------------------------------------------------------------------------
(* Context::default() (lib.rs:31-91, 1342-1358) *)

NewLinkCreation ==
    [start_pin_id |-> NilId, end_pin_id |-> None, detached_link_id |-> None,
     link_creation_type |-> "Standard"]

ContextDefault ==
    [node_ids_overlapping_with_mouse |-> <<>>,
     occluded_pin_ids |-> {},
     hovered_node_id |-> None,
     interactive_node_id |-> None,
     hovered_link_id |-> None,
     hovered_pin_id |-> None,
     detached_link_id |-> None,
     dropped_link_id |-> None,
     snap_link_id |-> None,
     hovered_pin_flags |-> 0,
     element_state_change |-> 0,
     active_attribute_id |-> NilId,
     active_attribute |-> FALSE,
     mouse_pos |-> 0,
     mouse_delta |-> 0,
     left_mouse_pressed |-> FALSE,
     left_mouse_released |-> FALSE,
     alt_mouse_clicked |-> FALSE,
     left_mouse_dragging |-> FALSE,
     alt_mouse_dragging |-> FALSE,
     mouse_in_canvas |-> FALSE,
     link_detach_with_modifier_click |-> FALSE,
     nodes |-> EmptyMap, node_keys |-> <<>>,
     pins |-> EmptyMap, pin_keys |-> <<>>,
     links |-> EmptyMap, link_keys |-> <<>>,
     end_pin_link_mapping |-> EmptyMap,
     panning |-> 0,
     selected_node_ids |-> <<>>,
     selected_link_ids |-> <<>>,
     node_depth_order |-> <<>>,
     partial_link |-> <<>>,
     click_interaction_type |-> "None",
     link_creation |-> NewLinkCreation,
     box_selection |-> Rect(0, 0),
     drawn_links |-> {},
     panicked |-> FALSE]

\* a failed unwrap(): the frame aborts; every later step of the frame leaves an
\* aborted context as it is
Panic(c) == [c EXCEPT !.panicked = TRUE]

\* Node::new (node.rs:43-57)
NodeNew ==
    [in_use |-> TRUE, origin |-> DefaultOrigin, rect |-> Rect(0, 0), pin_ids |-> {},
     draggable |-> TRUE]

\* PinData::new (pin.rs:93-104)
PinDataNew ==
    [in_use |-> TRUE, parent_node_id |-> NilId, kind |-> "None", pos |-> 0, flags |-> 0]

\* PinData::link_creation_on_snap_enabled
LinkCreationOnSnapEnabled(pin) == HasFlag(pin.flags, EnableLinkCreationOnSnap)


----------------------------------------------------------------------------
(* Context::begin_frame (lib.rs:94-139) *)

\* begin_frame without the reset of the event flags and of the detached and
\* dropped link ids
BeginFrameCtxKeepingEvents(c) ==
    [c EXCEPT
        !.hovered_node_id = None,
        !.interactive_node_id = None,
        !.hovered_link_id = None,
        !.hovered_pin_flags = 0,
        !.snap_link_id = None,
        !.partial_link = <<>>,
        !.end_pin_link_mapping = EmptyMap,
        !.node_ids_overlapping_with_mouse = <<>>,
        !.active_attribute = FALSE,
        !.drawn_links = {},
        !.nodes = [n \in DOMAIN c.nodes |-> [c.nodes[n] EXCEPT !.in_use = FALSE]],
        !.pins = [p \in DOMAIN c.pins |-> [c.pins[p] EXCEPT !.in_use = FALSE]],
        !.links = [l \in DOMAIN c.links |-> [c.links[l] EXCEPT !.in_use = FALSE]]]

BeginFrameCtx(c) ==
    [c EXCEPT
        !.hovered_node_id = None,
        !.interactive_node_id = None,
        !.hovered_link_id = None,
        !.hovered_pin_flags = 0,
        !.detached_link_id = None,
        !.dropped_link_id = None,
        !.snap_link_id = None,
        !.partial_link = <<>>,
        !.end_pin_link_mapping = EmptyMap,
        !.node_ids_overlapping_with_mouse = <<>>,
        !.element_state_change = 0,
        !.active_attribute = FALSE,
        !.drawn_links = {},
        !.nodes = [n \in DOMAIN c.nodes |-> [c.nodes[n] EXCEPT !.in_use = FALSE]],
        !.pins = [p \in DOMAIN c.pins |-> [c.pins[p] EXCEPT !.in_use = FALSE]],
        !.links = [l \in DOMAIN c.links |-> [c.links[l] EXCEPT !.in_use = FALSE]]]

\* the pointer positions egui may report: a cell of the canvas, or <<>> when the
\* pointer is outside it
PointerPositions(h) == {<<k * CellSize>> : k \in h.cells} \cup h.leave

\* egui's input of one frame: response.hover_pos(), the primary button, the pan
\* button, the modifier keys held, the attribute the pointer button is down on
Input(pos, down, alt, mods, attr_down) ==
    [pos |-> pos, down |-> down, alt |-> alt, mods |-> mods, attr_down |-> attr_down]

----------------------------------------------------------------------------
(* Context::add_attribute (lib.rs:433-457) *)

AddAttribute(c, attr, node_id, down_on) ==
    LET c1 ==
            IF attr.kind # "None"
            THEN LET old == IF attr.id \in DOMAIN c.pins THEN c.pins[attr.id] ELSE PinDataNew
                     pin == [old EXCEPT !.in_use = TRUE,
                                        !.parent_node_id = node_id,
                                        !.kind = attr.kind,
                                        !.flags = attr.flags]
                 IN  [c EXCEPT
                        !.pins = MapPut(c.pins, attr.id, pin),
                        !.pin_keys = IF attr.id \in DOMAIN c.pins THEN @
                                     ELSE Append(@, attr.id),
                        !.nodes = [@ EXCEPT ![node_id].pin_ids = @ \cup {attr.id}]]
            ELSE c
    IN  IF down_on
        THEN [c1 EXCEPT !.active_attribute = TRUE,
                        !.active_attribute_id = attr.id,
                        !.interactive_node_id = node_id]
        ELSE c1

RECURSIVE AddAttributes(_, _, _, _)
\* the loop over the attributes of the node builder (lib.rs:405-415)
AddAttributes(c, attrs, node_id, inp) ==
    IF attrs = <<>> THEN c
    ELSE AddAttributes(AddAttribute(c, Head(attrs), node_id, inp.attr_down = Head(attrs).id),
                       Tail(attrs), node_id, inp)

\* Context::grid_space_to_screen_space, with the canvas origin at 0
GridSpaceToScreenSpace(c, v) == v + c.panning

\* a show_node that applies the declared origin on every declaration of the node
ShowNodeCtxResettingOrigin(c, node_id, pos, attrs, inp) ==
    LET isNew == node_id \notin DOMAIN c.nodes
        node0 == IF isNew
                 THEN [NodeNew EXCEPT !.origin = IF pos # <<>> THEN pos[1] ELSE @]
                 ELSE [c.nodes[node_id] EXCEPT !.origin = IF pos # <<>> THEN pos[1] ELSE @]
        c1 == [c EXCEPT
                 !.nodes = MapPut(c.nodes, node_id, [node0 EXCEPT !.in_use = TRUE]),
                 !.node_keys = IF isNew THEN Append(@, node_id) ELSE @,
                 !.node_depth_order =
                     IF isNew /\ ~Contains(@, node_id) THEN Append(@, node_id) ELSE @]
        node_pos == GridSpaceToScreenSpace(c1, node0.origin)
        c2 == AddAttributes(c1, attrs, node_id, inp)
        rect == Rect(node_pos, node_pos + NodeWidth)
        hovered == inp.pos # <<>> /\ RectContains(rect, inp.pos[1])
    IN  [c2 EXCEPT
            !.nodes = [@ EXCEPT ![node_id].rect = rect],
            !.node_ids_overlapping_with_mouse =
                IF hovered THEN Append(@, node_id) ELSE @]

(* Context::show_node (lib.rs:352-431) *)
ShowNodeCtx(c, node_id, pos, attrs, inp) ==
    LET isNew == node_id \notin DOMAIN c.nodes
        node0 == IF isNew
                 THEN [NodeNew EXCEPT !.origin = IF pos # <<>> THEN pos[1] ELSE @]
                 ELSE c.nodes[node_id]
        c1 == [c EXCEPT
                 !.nodes = MapPut(c.nodes, node_id, [node0 EXCEPT !.in_use = TRUE]),
                 !.node_keys = IF isNew THEN Append(@, node_id) ELSE @,
                 !.node_depth_order =
                     IF isNew /\ ~Contains(@, node_id) THEN Append(@, node_id) ELSE @]
        node_pos == GridSpaceToScreenSpace(c1, node0.origin)
        c2 == AddAttributes(c1, attrs, node_id, inp)
        rect == Rect(node_pos, node_pos + NodeWidth)
        hovered == inp.pos # <<>> /\ RectContains(rect, inp.pos[1])
    IN  [c2 EXCEPT
            !.nodes = [@ EXCEPT ![node_id].rect = rect],
            !.node_ids_overlapping_with_mouse =
                IF hovered THEN Append(@, node_id) ELSE @]

RECURSIVE ShowNodes(_, _, _, _)
\* the host's loop over its nodes (main.rs:133-201)
ShowNodes(c, h, ids, inp) ==
    IF ids = <<>> THEN c
    ELSE ShowNodes(ShowNodeCtx(c, Head(ids), <<HostOrigin(Head(ids))>>,
                               HostAttributes(h, Head(ids)), inp),
                   h, Tail(ids), inp)

----------------------------------------------------------------------------
(* Context::add_link (lib.rs:459-493) *)

AddLinkCtx(c, id, start_pin_id, end_pin_id) ==
    LET old == IF end_pin_id \in DOMAIN c.end_pin_link_mapping
               THEN c.end_pin_link_mapping[end_pin_id] ELSE <<>>
        link == [in_use |-> TRUE, start_pin_id |-> start_pin_id, end_pin_id |-> end_pin_id]
        c1 == [c EXCEPT
                 !.end_pin_link_mapping = MapPut(@, end_pin_id, Append(old, id)),
                 !.links = MapPut(@, id, link),
                 !.link_keys = IF id \in DOMAIN c.links THEN @ ELSE Append(@, id)]
        lc == c.link_creation
        inCreation == c.click_interaction_type = "LinkCreation"
    IN  IF inCreation /\ end_pin_id \notin DOMAIN c.pins
        THEN Panic(c1)   \* self.pins.get(&link.end_pin_id).unwrap()
        ELSE IF \/ /\ inCreation
                   /\ LinkCreationOnSnapEnabled(c.pins[end_pin_id])
                   /\ lc.start_pin_id = start_pin_id
                   /\ lc.end_pin_id = end_pin_id
                \/ /\ lc.start_pin_id = end_pin_id
                   /\ lc.end_pin_id = start_pin_id
             THEN [c1 EXCEPT !.snap_link_id = id]
             ELSE c1

RECURSIVE AddLinks(_, _)
\* the host's loop over its links (main.rs:203-206)
AddLinks(c, ids) ==
    IF ids = <<>> \/ c.panicked THEN c
    ELSE AddLinks(AddLinkCtx(c, Head(ids), HostLinkPins(Head(ids))[1],
                             HostLinkPins(Head(ids))[2]),
                  Tail(ids))

----------------------------------------------------------------------------
(* Context::end_frame, input part (lib.rs:142-185) *)

EndFrameInput(c, inp) ==
    LET down == inp.down
        alt == inp.alt
        mods == inp.mods
        in_canvas == inp.pos # <<>>
        mouse_pos == IF in_canvas THEN inp.pos[1] ELSE c.mouse_pos
        was_down == c.left_mouse_pressed \/ c.left_mouse_dragging
        alt_mouse_clicked == ModifiersIsActive(IoEmulateThreeButtonMouse, mods) \/ alt
        alt_was == c.alt_mouse_clicked \/ c.alt_mouse_dragging
    IN  [c EXCEPT
            !.mouse_in_canvas = in_canvas,
            !.mouse_delta = mouse_pos - c.mouse_pos,
            !.mouse_pos = mouse_pos,
            !.left_mouse_released = was_down /\ ~down,
            !.left_mouse_dragging = was_down /\ down,
            !.left_mouse_pressed = down /\ ~was_down,
            !.alt_mouse_dragging = alt_was /\ alt_mouse_clicked,
            !.alt_mouse_clicked = alt_mouse_clicked /\ ~alt_was,
            !.link_detach_with_modifier_click =
                ModifiersIsActive(IoLinkDetachWithModifierClick, mods)]

----------------------------------------------------------------------------
(* Hit testing (lib.rs:529-592) *)

\* Context::resolve_occluded_pins
ResolveOccludedPins(c) ==
    LET ds == c.node_depth_order
        below == 1..(Len(ds) - 1)
    IN  IF Len(ds) < 2 THEN [c EXCEPT !.occluded_pin_ids = {}]
        ELSE IF \/ \E i \in DOMAIN ds : ds[i] \notin DOMAIN c.nodes
                \/ \E i \in below :
                      \E p \in c.nodes[ds[i]].pin_ids : p \notin DOMAIN c.pins
             THEN Panic(c)
             ELSE [c EXCEPT !.occluded_pin_ids =
                     {p \in DOMAIN c.pins :
                        \E i \in below : \E j \in (i + 1)..Len(ds) :
                            /\ p \in c.nodes[ds[i]].pin_ids
                            /\ RectContains(c.nodes[ds[j]].rect, c.pins[p].pos)}]

RECURSIVE NearestPin(_, _, _)
\* the loop of resolve_hovered_pin over self.pins in insertion order; best is
\* <<>> or <<smallest_distance, pin_id>>
NearestPin(c, keys, best) ==
    IF keys = <<>> THEN best
    ELSE LET pin_id == Head(keys)
             d == (c.pins[pin_id].pos - c.mouse_pos) * (c.pins[pin_id].pos - c.mouse_pos)
         IN  IF pin_id \in c.occluded_pin_ids THEN NearestPin(c, Tail(keys), best)
             ELSE IF d < PinHoverRadius * PinHoverRadius /\ (best = <<>> \/ d < best[1])
                  THEN NearestPin(c, Tail(keys), <<d, pin_id>>)
                  ELSE NearestPin(c, Tail(keys), best)

\* Context::resolve_hovered_pin
ResolveHoveredPin(c) ==
    LET best == NearestPin(c, c.pin_keys, <<>>)
    IN  [c EXCEPT !.hovered_pin_id = IF best = <<>> THEN None ELSE best[2]]

\* index of the lowest of the nodes under the pointer in the depth order, 0 if none
SmallestDepthIdx(depth_order, overlapping) ==
    LET idx == {i \in DOMAIN depth_order : Contains(overlapping, depth_order[i])}
    IN  IF idx = {} THEN 0 ELSE CHOOSE i \in idx : \A j \in idx : i <= j

\* index of the topmost of the nodes under the pointer in the depth order, 0 if none
LargestDepthIdx(depth_order, overlapping) ==
    LET idx == {i \in DOMAIN depth_order : Contains(overlapping, depth_order[i])}
    IN  IF idx = {} THEN 0 ELSE CHOOSE i \in idx : \A j \in idx : j <= i

\* Context::resolve_hovered_node
ResolveHoveredNode(c) ==
    LET over == c.node_ids_overlapping_with_mouse
        top == LargestDepthIdx(c.node_depth_order, over)
    IN  IF Len(over) = 0 THEN [c EXCEPT !.hovered_node_id = None]
        ELSE IF Len(over) = 1 THEN [c EXCEPT !.hovered_node_id = over[1]]
        ELSE IF top = 0 THEN c
        ELSE [c EXCEPT !.hovered_node_id = c.node_depth_order[top]]

\* a hit test that resolves the hovered node whether or not a pin is hovered
ResolveHoveredNodeAlways(c) == ResolveHoveredNode(c)

\* lib.rs:191-193
ResolveHoveredNodeIfNoPin(c) ==
    IF c.hovered_pin_id = None THEN ResolveHoveredNode(c) ELSE c

\* lib.rs:189-193
ResolveHovered(c) ==
    IF c.panicked THEN c ELSE ResolveHoveredNodeIfNoPin(ResolveHoveredPin(c))

\* lib.rs:187-194
HitTest(c) ==
    IF ~c.mouse_in_canvas THEN c ELSE ResolveHovered(ResolveOccludedPins(c))

----------------------------------------------------------------------------
(* Fan-out of the links that end at one pin (lib.rs:648-708, style.rs:240-263) *)

\* a count that leaves the partial link out
LinkCountOfDeclaredLinks(end_pin_links, pin_id, partial_link) ==
    IF pin_id \in DOMAIN end_pin_links THEN Len(end_pin_links[pin_id]) ELSE 0

\* Context::link_count_for_end_pin
LinkCountForEndPin(end_pin_links, pin_id, partial_link) ==
    LET count == IF pin_id \in DOMAIN end_pin_links THEN Len(end_pin_links[pin_id]) ELSE 0
    IN  IF /\ partial_link # <<>>
           /\ partial_link[1].end = pin_id
           /\ partial_link[1].start # pin_id
        THEN count + 1
        ELSE count

\* Vec2::angle of (end - start) in units of pi/8; on the x axis it is 0 or pi
Angle8(end_pos, start_pos) == IF end_pos - start_pos < 0 THEN 8 ELSE 0

RECURSIVE InsertDescending(_, _)
\* one step of the stable sort by descending angle: e goes behind every entry whose
\* angle is not smaller
InsertDescending(sorted, e) ==
    IF sorted = <<>> THEN <<e>>
    ELSE IF Head(sorted).angle >= e.angle
         THEN <<Head(sorted)>> \o InsertDescending(Tail(sorted), e)
         ELSE <<e>> \o sorted

RECURSIVE SortDescending(_, _)
SortDescending(todo, sorted) ==
    IF todo = <<>> THEN sorted
    ELSE SortDescending(Tail(todo), InsertDescending(sorted, Head(todo)))

RECURSIVE SiblingAngles(_, _, _, _, _)
\* the filter / filter_map chain of link_index_for_end_pin (lib.rs:682-686)
SiblingAngles(link_ids, links, pins, link_id, end_pin_pos) ==
    IF link_ids = <<>> THEN <<>>
    ELSE LET id == Head(link_ids)
             rest == SiblingAngles(Tail(link_ids), links, pins, link_id, end_pin_pos)
         IN  IF id = link_id \/ id \notin DOMAIN links
                \/ links[id].start_pin_id \notin DOMAIN pins
             THEN rest
             ELSE <<[id |-> id,
                     angle |-> Angle8(end_pin_pos, pins[links[id].start_pin_id].pos)]>>
                  \o rest

\* Context::link_index_for_end_pin: <<>> (None) or <<index>>, counted from 0
LinkIndexForEndPin(end_pin_links, links, pins, partial_link, pin_id, link_id, start_pos) ==
    IF pin_id \notin DOMAIN pins \/ pin_id \notin DOMAIN end_pin_links THEN <<>>
    ELSE LET end_pin_pos == pins[pin_id].pos
             own == [id |-> link_id, angle |-> Angle8(end_pin_pos, start_pos)]
             angles == SiblingAngles(end_pin_links[pin_id], links, pins, link_id, end_pin_pos)
                       \o <<own>>
             withPartial ==
                 IF /\ partial_link # <<>>
                    /\ partial_link[1].end = pin_id
                    /\ partial_link[1].start # pin_id
                 THEN Append(angles,
                             [id |-> NilId,
                              angle |-> Angle8(end_pin_pos, pins[partial_link[1].start].pos)])
                 ELSE angles
             sorted == SortDescending(withPartial, <<>>)
             at == {i \in DOMAIN sorted : sorted[i].id = link_id}
         IN  <<(CHOOSE i \in at : \A j \in at : i <= j) - 1>>

\* the angle of Style::calculate_link_end_pos in units of pi/8:
\* PI - (link_count - 1) * FRAC_PI_8 + link_index * FRAC_PI_4
LinkEndAngle8(link_count, link_index) == 8 - (link_count - 1) + 2 * link_index

\* 1000 * cos(a * pi / 8)
Cos1000(a) ==
    LET k == a % 16
    IN  CASE k = 0 -> 1000
          [] k \in {1, 15} -> 924
          [] k \in {2, 14} -> 707
          [] k \in {3, 13} -> 383
          [] k \in {4, 12} -> 0
          [] k \in {5, 11} -> -383
          [] k \in {6, 10} -> -707
          [] k \in {7, 9} -> -924
          [] OTHER -> -1000

\* Style::hovered_pin_radius: egui::remap, then min
HoveredPinRadius(pin_pos, mouse_pos) ==
    Min(((PinHoverRadius - Abs(pin_pos - mouse_pos)) * PinHoverShapeRadius)
            \div (PinHoverRadius - PinHoverShapeRadius - 5),
        PinHoverShapeRadius)

\* Style::calculate_link_end_pos, x coordinate, rounded towards the pin
CalculateLinkEndPos(pin_pos, mouse_pos, link_count, link_index) ==
    LET r == HoveredPinRadius(pin_pos, mouse_pos) * Cos1000(LinkEndAngle8(link_count, link_index))
    IN  pin_pos + (IF r < 0 THEN -((-r) \div 1000) ELSE r \div 1000)

----------------------------------------------------------------------------
(* Link curves (link.rs) *)

\* LinkBezierData::get_distance_to_cubic_bezier: distance from the pointer to the
\* polyline from start to end
DistanceToLink(start_pos, end_pos, mouse_pos) ==
    LET lo == Min(start_pos, end_pos)
        hi == Max(start_pos, end_pos)
    IN  IF mouse_pos < lo THEN lo - mouse_pos
        ELSE IF mouse_pos > hi THEN mouse_pos - hi
        ELSE 0

\* LinkBezierData::rectangle_overlaps_bezier: a segment of the polyline crosses
\* the rectangle
RectangleOverlapsBezier(rect, start_pos, end_pos) ==
    RectIntersects(rect, Rect(Min(start_pos, end_pos), Max(start_pos, end_pos)))

----------------------------------------------------------------------------
(* Box selection (lib.rs:970-1048) *)

\* the box with min and max swapped where min > max (lib.rs:971-978)
NormalisedBox(box) == IF box.min > box.max THEN Rect(box.max, box.min) ELSE box

\* Context::rectangle_overlaps_link
RectangleOverlapsLink(rect, start_pos, end_pos) ==
    LET lrect == Rect(Min(start_pos, end_pos), Max(start_pos, end_pos))
    IN  IF RectIntersects(rect, lrect)
        THEN \/ RectContains(rect, start_pos)
             \/ RectContains(rect, end_pos)
             \/ RectangleOverlapsBezier(rect, start_pos, end_pos)
        ELSE FALSE

\* the links box selection looks at: in use, with both pins in the store
BoxCandidateLinks(c) ==
    {l \in DOMAIN c.links :
        /\ c.links[l].in_use
        /\ c.links[l].start_pin_id \in DOMAIN c.pins
        /\ c.links[l].end_pin_id \in DOMAIN c.pins}

\* a box selection that also takes the nodes the host no longer declares
BoxSelectorUpdateSelectionOfStored(c) ==
    LET box_rect == NormalisedBox(c.box_selection)
        sel_nodes == {n \in DOMAIN c.nodes : RectIntersects(box_rect, c.nodes[n].rect)}
        cand == BoxCandidateLinks(c)
        PinPos(p) == PinCoordinates(c.nodes[c.pins[p].parent_node_id].rect, c.pins[p].kind)
        sel_links == {l \in cand :
                        RectangleOverlapsLink(box_rect, PinPos(c.links[l].start_pin_id),
                                              PinPos(c.links[l].end_pin_id))}
        c1 == [c EXCEPT !.selected_node_ids = SeqKeep(c.node_keys, sel_nodes)]
    IN  IF \E l \in cand :
              \/ c.pins[c.links[l].start_pin_id].parent_node_id \notin DOMAIN c.nodes
              \/ c.pins[c.links[l].end_pin_id].parent_node_id \notin DOMAIN c.nodes
        THEN Panic(c1)
        ELSE [c1 EXCEPT !.selected_link_ids = SeqKeep(c.link_keys, sel_links)]

\* Context::box_selector_update_selection
BoxSelectorUpdateSelection(c) ==
    LET box_rect == NormalisedBox(c.box_selection)
        sel_nodes == {n \in DOMAIN c.nodes :
                        c.nodes[n].in_use /\ RectIntersects(box_rect, c.nodes[n].rect)}
        cand == BoxCandidateLinks(c)
        PinPos(p) == PinCoordinates(c.nodes[c.pins[p].parent_node_id].rect, c.pins[p].kind)
        sel_links == {l \in cand :
                        RectangleOverlapsLink(box_rect, PinPos(c.links[l].start_pin_id),
                                              PinPos(c.links[l].end_pin_id))}
        c1 == [c EXCEPT !.selected_node_ids = SeqKeep(c.node_keys, sel_nodes)]
    IN  IF \E l \in cand :
              \/ c.pins[c.links[l].start_pin_id].parent_node_id \notin DOMAIN c.nodes
              \/ c.pins[c.links[l].end_pin_id].parent_node_id \notin DOMAIN c.nodes
        THEN Panic(c1)   \* self.nodes.get(&pin.parent_node_id).unwrap()
        ELSE [c1 EXCEPT !.selected_link_ids = SeqKeep(c.link_keys, sel_links)]

\* a release that puts the selected nodes below the others
DepthOrderSelectedFirst(depth_order, selected) ==
    SeqKeep(depth_order, Range(selected)) \o SeqFilterOut(depth_order, Range(selected))

\* the depth order after a box selection is released (lib.rs:1063-1074)
DepthOrderAfterBoxRelease(depth_order, selected) ==
    SeqFilterOut(depth_order, Range(selected)) \o SeqKeep(depth_order, Range(selected))

\* the release of a box selection (lib.rs:1062-1076)
BoxSelectionRelease(c) ==
    IF c.panicked \/ ~c.left_mouse_released THEN c
    ELSE [c EXCEPT
            !.node_depth_order = DepthOrderAfterBoxRelease(@, c.selected_node_ids),
            !.click_interaction_type = "None"]

\* click_interaction_update, ClickInteractionType::BoxSelection (lib.rs:1052-1077)
UpdateBoxSelection(c) ==
    BoxSelectionRelease(
        BoxSelectorUpdateSelection([c EXCEPT !.box_selection.max = c.mouse_pos]))

----------------------------------------------------------------------------
(* Node drag (lib.rs:933-943, 1078-1083) *)

RECURSIVE TranslateNodes(_, _, _)
\* the loop of translate_selected_nodes
TranslateNodes(c, ids, delta) ==
    IF ids = <<>> THEN c
    ELSE IF Head(ids) \notin DOMAIN c.nodes
         THEN Panic(c)   \* self.nodes.get_mut(node_id).unwrap()
         ELSE TranslateNodes(
                  IF c.nodes[Head(ids)].draggable
                  THEN [c EXCEPT !.nodes[Head(ids)].origin = @ + delta]
                  ELSE c,
                  Tail(ids), delta)

\* a translation that also moves the nodes in the frame of the release
TranslateSelectedNodesThroughRelease(c) ==
    TranslateNodes(c, c.selected_node_ids, c.mouse_delta)

\* Context::translate_selected_nodes
TranslateSelectedNodes(c) ==
    IF c.left_mouse_dragging THEN TranslateNodes(c, c.selected_node_ids, c.mouse_delta)
    ELSE c

\* a Link arm that keeps the mode when the button is released
UpdateLinkKeepingMode(c) == c

\* click_interaction_update, ClickInteractionType::Link
UpdateLink(c) ==
    IF c.left_mouse_released THEN [c EXCEPT !.click_interaction_type = "None"] ELSE c

\* the release of a node drag (lib.rs:1080-1082)
NodeRelease(c) ==
    IF ~c.panicked /\ c.left_mouse_released
    THEN [c EXCEPT !.click_interaction_type = "None"] ELSE c

\* click_interaction_update, ClickInteractionType::Node
UpdateNode(c) == NodeRelease(TranslateSelectedNodes(c))

\* a Panning arm that adds the pointer delta also in the frame of the release
UpdatePanningThroughRelease(c) ==
    IF c.alt_mouse_dragging \/ c.alt_mouse_clicked
    THEN [c EXCEPT !.panning = @ + c.mouse_delta]
    ELSE [c EXCEPT !.panning = @ + c.mouse_delta, !.click_interaction_type = "None"]

\* click_interaction_update, ClickInteractionType::Panning
UpdatePanning(c) ==
    IF c.alt_mouse_dragging \/ c.alt_mouse_clicked
    THEN [c EXCEPT !.panning = @ + c.mouse_delta]
    ELSE [c EXCEPT !.click_interaction_type = "None"]

----------------------------------------------------------------------------
(* Link creation (lib.rs:945-968, 1089-1220, 1232-1243, 1292-1300) *)

\* Context::find_duplicate_link: the first link in use with these pins, or None
FindDuplicateLink(c, start_pin_id, end_pin_id) ==
    LET hits == {i \in DOMAIN c.link_keys :
                    /\ c.links[c.link_keys[i]].in_use
                    /\ c.links[c.link_keys[i]].start_pin_id = start_pin_id
                    /\ c.links[c.link_keys[i]].end_pin_id = end_pin_id}
    IN  IF hits = {} THEN None
        ELSE c.link_keys[CHOOSE i \in hits : \A j \in hits : i <= j]

\* a snap rule that does not compare the kinds of the two pins
ShouldLinkSnapToPinOfAnyKind(c, start_pin, hovered_pin_id, duplicate_link) ==
    LET end_pin == c.pins[hovered_pin_id]
    IN  /\ start_pin.parent_node_id # end_pin.parent_node_id
        /\ ~(duplicate_link # None /\ duplicate_link # c.snap_link_id)

\* Context::should_link_snap_to_pin (the end pin is in the store)
ShouldLinkSnapToPin(c, start_pin, hovered_pin_id, duplicate_link) ==
    LET end_pin == c.pins[hovered_pin_id]
    IN  /\ start_pin.parent_node_id # end_pin.parent_node_id
        /\ start_pin.kind # end_pin.kind
        /\ ~(duplicate_link # None /\ duplicate_link # c.snap_link_id)

\* Context::begin_link_detach
BeginLinkDetach(c, id, detach_id) ==
    IF id \notin DOMAIN c.links THEN Panic(c)   \* self.links.get(&id).unwrap()
    ELSE LET link == c.links[id]
         IN  [c EXCEPT
                !.link_creation.end_pin_id = None,
                !.link_creation.start_pin_id =
                    IF detach_id = link.start_pin_id THEN link.end_pin_id
                    ELSE link.start_pin_id,
                !.detached_link_id = id]

\* an end of the LinkCreation arm that reports the link detached last, whatever
\* the type of the creation
FinishLinkCreationDroppingLastDetached(c, should_snap, maybe_duplicate_link_id) ==
    LET hp == c.hovered_pin_id
        link_creation_on_snap == hp # None /\ LinkCreationOnSnapEnabled(c.pins[hp])
        end_pin_id == IF should_snap THEN c.link_creation.end_pin_id ELSE None
        create_link == should_snap /\ (c.left_mouse_released \/ link_creation_on_snap)
        commit == create_link /\ maybe_duplicate_link_id = None
    IN  IF c.panicked THEN c
        ELSE IF commit /\ ~c.left_mouse_released /\ end_pin_id = hp
        THEN c
        ELSE [c EXCEPT
                !.link_creation.end_pin_id = IF commit THEN hp ELSE end_pin_id,
                !.element_state_change =
                    IF commit THEN WithFlag(@, LinkCreated)
                    ELSE IF c.left_mouse_released /\ ~create_link
                         THEN WithFlag(@, LinkDropped)
                         ELSE @,
                !.click_interaction_type = IF c.left_mouse_released THEN "None" ELSE @,
                !.dropped_link_id =
                    IF c.left_mouse_released /\ ~create_link
                    THEN c.link_creation.detached_link_id
                    ELSE @]

\* an end of the LinkCreation arm that never reports a dropped link
FinishLinkCreationWithoutDrop(c, should_snap, maybe_duplicate_link_id) ==
    LET hp == c.hovered_pin_id
        link_creation_on_snap == hp # None /\ LinkCreationOnSnapEnabled(c.pins[hp])
        end_pin_id == IF should_snap THEN c.link_creation.end_pin_id ELSE None
        create_link == should_snap /\ (c.left_mouse_released \/ link_creation_on_snap)
        commit == create_link /\ maybe_duplicate_link_id = None
    IN  IF c.panicked THEN c
        ELSE IF commit /\ ~c.left_mouse_released /\ end_pin_id = hp
        THEN c
        ELSE [c EXCEPT
                !.link_creation.end_pin_id = IF commit THEN hp ELSE end_pin_id,
                !.element_state_change = IF commit THEN WithFlag(@, LinkCreated) ELSE @,
                !.click_interaction_type = IF c.left_mouse_released THEN "None" ELSE @]

\* the end of the LinkCreation arm (lib.rs:1180-1219); c already holds the
\* partial link
FinishLinkCreation(c, should_snap, maybe_duplicate_link_id) ==
    LET hp == c.hovered_pin_id
        link_creation_on_snap == hp # None /\ LinkCreationOnSnapEnabled(c.pins[hp])
        end_pin_id == IF should_snap THEN c.link_creation.end_pin_id ELSE None
        create_link == should_snap /\ (c.left_mouse_released \/ link_creation_on_snap)
        commit == create_link /\ maybe_duplicate_link_id = None
    IN  IF c.panicked THEN c
        ELSE IF commit /\ ~c.left_mouse_released /\ end_pin_id = hp
        THEN c   \* return
        ELSE [c EXCEPT
                !.link_creation.end_pin_id = IF commit THEN hp ELSE end_pin_id,
                !.element_state_change =
                    IF commit THEN WithFlag(@, LinkCreated)
                    ELSE IF c.left_mouse_released /\ ~create_link
                         THEN WithFlag(@, LinkDropped)
                         ELSE @,
                !.click_interaction_type = IF c.left_mouse_released THEN "None" ELSE @,
                !.dropped_link_id =
                    IF /\ c.left_mouse_released
                       /\ ~create_link
                       /\ c.link_creation.link_creation_type = "FromDetach"
                    THEN c.link_creation.detached_link_id
                    ELSE @]

\* maybe_duplicate_link_id (lib.rs:1090-1095)
LinkCreationDuplicate(c) ==
    IF c.hovered_pin_id = None THEN None
    ELSE FindDuplicateLink(c, c.link_creation.start_pin_id, c.hovered_pin_id)

\* should_snap (lib.rs:1097-1103); both pins are in the store
LinkCreationShouldSnap(c) ==
    /\ c.hovered_pin_id # None
    /\ ShouldLinkSnapToPin(c, c.pins[c.link_creation.start_pin_id], c.hovered_pin_id,
                           LinkCreationDuplicate(c))

\* a detach of the snapped link that names the start pin of the creation as the
\* detached end
SnapLinkDetachFromStartPin(c) ==
    LET lc == c.link_creation
        snapping_pin_changed == lc.end_pin_id # None /\ c.hovered_pin_id # lc.end_pin_id
    IN  IF snapping_pin_changed /\ c.snap_link_id # None
        THEN BeginLinkDetach(c, c.snap_link_id, lc.start_pin_id)
        ELSE c

\* lib.rs:1105-1119: the pointer left the pin the link had snapped to
SnapLinkDetach(c) ==
    LET lc == c.link_creation
        snapping_pin_changed == lc.end_pin_id # None /\ c.hovered_pin_id # lc.end_pin_id
    IN  IF snapping_pin_changed /\ c.snap_link_id # None
        THEN BeginLinkDetach(c, c.snap_link_id, lc.end_pin_id)
        ELSE c

\* lib.rs:1121-1137: the provisional link from the start pin to the hovered pin
SetPartialLink(c, should_snap) ==
    LET start_pin_id == c.link_creation.start_pin_id
        hp == c.hovered_pin_id
    IN  IF c.panicked THEN c
        ELSE IF start_pin_id \notin DOMAIN c.pins
        THEN Panic(c)   \* lib.rs:1121-1124
        ELSE IF c.pins[start_pin_id].parent_node_id \notin DOMAIN c.nodes
        THEN Panic(c)   \* get_screen_space_pin_coordinates, lib.rs:521
        ELSE IF should_snap /\ c.pins[hp].parent_node_id \notin DOMAIN c.nodes
        THEN Panic([c EXCEPT !.partial_link = <<[start |-> start_pin_id, end |-> hp]>>])
        ELSE [c EXCEPT !.partial_link = <<[start |-> start_pin_id, end |-> hp]>>]

\* click_interaction_update, ClickInteractionType::LinkCreation
UpdateLinkCreation(c) ==
    IF /\ c.hovered_pin_id # None
       /\ \/ c.link_creation.start_pin_id \notin DOMAIN c.pins
          \/ c.hovered_pin_id \notin DOMAIN c.pins
    THEN Panic(c)   \* lib.rs:1098-1101, 951
    ELSE FinishLinkCreation(SetPartialLink(SnapLinkDetach(c), LinkCreationShouldSnap(c)),
                            LinkCreationShouldSnap(c), LinkCreationDuplicate(c))

\* Context::click_interaction_update
ClickInteractionUpdate(c) ==
    CASE c.panicked -> c
      [] c.click_interaction_type = "BoxSelection" -> UpdateBoxSelection(c)
      [] c.click_interaction_type = "Node" -> UpdateNode(c)
      [] c.click_interaction_type = "Link" -> UpdateLink(c)
      [] c.click_interaction_type = "LinkCreation" -> UpdateLinkCreation(c)
      [] c.click_interaction_type = "Panning" -> UpdatePanning(c)
      [] OTHER -> c

----------------------------------------------------------------------------
(* Context::resolve_hovered_link (lib.rs:594-646) *)

\* the end position of a link as resolve_hovered_link and draw_link compute it
LinkEndPos(c, link_id) ==
    LET link == c.links[link_id]
        end_pin == c.pins[link.end_pin_id]
        count == LinkCountForEndPin(c.end_pin_link_mapping, link.end_pin_id, c.partial_link)
        found == LinkIndexForEndPin(c.end_pin_link_mapping, c.links, c.pins, c.partial_link,
                                    link.end_pin_id, link_id, c.pins[link.start_pin_id].pos)
        idx == IF found = <<>> THEN 0 ELSE found[1]
    IN  IF c.hovered_pin_id = link.end_pin_id /\ count > 1
        THEN CalculateLinkEndPos(end_pin.pos, c.mouse_pos, count, idx)
        ELSE end_pin.pos

RECURSIVE NearestLink(_, _, _)
\* the loop of resolve_hovered_link over self.links in insertion order; best is
\* <<>> or <<smallest_distance, link_id>>
NearestLink(c, keys, best) ==
    IF keys = <<>> THEN best
    ELSE LET link_id == Head(keys)
             link == c.links[link_id]
         IN  IF link.start_pin_id \notin DOMAIN c.pins \/ link.end_pin_id \notin DOMAIN c.pins
             THEN NearestLink(c, Tail(keys), best)
             ELSE LET d == DistanceToLink(c.pins[link.start_pin_id].pos,
                                          LinkEndPos(c, link_id), c.mouse_pos)
                  IN  IF d < LinkHoverDistance /\ (best = <<>> \/ d < best[1])
                      THEN NearestLink(c, Tail(keys), <<d, link_id>>)
                      ELSE NearestLink(c, Tail(keys), best)

ResolveHoveredLink(c) ==
    LET best == NearestLink(c, c.link_keys, <<>>)
    IN  [c EXCEPT !.hovered_link_id = IF best = <<>> THEN None ELSE best[2]]

----------------------------------------------------------------------------
(* Starting an interaction from the draw pass (lib.rs:1245-1315) *)

\* Context::begin_link_creation
BeginLinkCreation(c, hovered_pin_id) ==
    [c EXCEPT
        !.click_interaction_type = "LinkCreation",
        !.link_creation.start_pin_id = hovered_pin_id,
        !.link_creation.end_pin_id = None,
        !.link_creation.link_creation_type = "Standard",
        !.element_state_change = WithFlag(@, LinkStarted)]

\* Context::begin_link_selection
BeginLinkSelection(c, link_id) ==
    [c EXCEPT
        !.click_interaction_type = "Link",
        !.selected_node_ids = <<>>,
        !.selected_link_ids = <<link_id>>]

\* the pin of the link nearer the pointer (lib.rs:1259-1267)
ClosestPin(c, link) ==
    IF Abs(c.pins[link.start_pin_id].pos - c.mouse_pos)
         < Abs(c.pins[link.end_pin_id].pos - c.mouse_pos)
    THEN link.start_pin_id ELSE link.end_pin_id

\* Context::begin_link_interaction
BeginLinkInteraction(c, id) ==
    LET link == c.links[id]
    IN  IF c.click_interaction_type = "LinkCreation"
        THEN IF HasFlag(c.hovered_pin_flags, EnableLinkDetachWithDragClick)
             THEN IF c.hovered_pin_id = None THEN Panic(c)   \* hovered_pin_id.unwrap()
                  ELSE LET c1 == BeginLinkDetach(c, id, c.hovered_pin_id)
                       IN  [c1 EXCEPT
                              !.link_creation.detached_link_id = id,
                              !.link_creation.link_creation_type = "FromDetach"]
             ELSE c
        ELSE IF c.link_detach_with_modifier_click
        THEN IF link.start_pin_id \notin DOMAIN c.pins \/ link.end_pin_id \notin DOMAIN c.pins
             THEN Panic(c)
             ELSE BeginLinkDetach([c EXCEPT !.click_interaction_type = "LinkCreation"],
                                  id, ClosestPin(c, link))
        ELSE BeginLinkSelection(c, id)

\* a node selection that replaces the selection also by a node it contains
BeginNodeSelectionReselecting(c, id) ==
    IF c.click_interaction_type # "None" THEN c
    ELSE [c EXCEPT
            !.click_interaction_type = "Node",
            !.selected_node_ids = <<id>>,
            !.selected_link_ids = <<>>,
            !.node_depth_order = Append(SeqFilterOut(@, {id}), id)]

\* a node selection that pushes the node on the depth order without removing it
BeginNodeSelectionPushingAgain(c, id) ==
    IF c.click_interaction_type # "None" THEN c
    ELSE IF Contains(c.selected_node_ids, id)
         THEN [c EXCEPT !.click_interaction_type = "Node"]
         ELSE [c EXCEPT
                 !.click_interaction_type = "Node",
                 !.selected_node_ids = <<id>>,
                 !.selected_link_ids = <<>>,
                 !.node_depth_order = Append(@, id)]

\* Context::begin_node_selection
BeginNodeSelection(c, id) ==
    IF c.click_interaction_type # "None" THEN c
    ELSE IF Contains(c.selected_node_ids, id)
         THEN [c EXCEPT !.click_interaction_type = "Node"]
         ELSE [c EXCEPT
                 !.click_interaction_type = "Node",
                 !.selected_node_ids = <<id>>,
                 !.selected_link_ids = <<>>,
                 !.node_depth_order = Append(SeqFilterOut(@, {id}), id)]

\* Context::begin_canvas_interaction
BeginCanvasInteraction(c) ==
    LET any_ui_element_hovered ==
            \/ c.hovered_node_id # None
            \/ c.hovered_link_id # None
            \/ c.hovered_pin_id # None
    IN  IF \/ c.click_interaction_type # "None"
           \/ any_ui_element_hovered
           \/ ~c.mouse_in_canvas
        THEN c
        ELSE IF c.alt_mouse_clicked
             THEN [c EXCEPT !.click_interaction_type = "Panning"]
             ELSE [c EXCEPT !.click_interaction_type = "BoxSelection",
                            !.box_selection.min = c.mouse_pos]

----------------------------------------------------------------------------
(* The draw pass (lib.rs:202-209, 710-909) *)

\* Context::draw_pin
DrawPin(c, pin_id) ==
    IF pin_id \notin DOMAIN c.pins THEN Panic(c)
    ELSE IF c.pins[pin_id].parent_node_id \notin DOMAIN c.nodes THEN Panic(c)
    ELSE
    LET pin == c.pins[pin_id]
        pos == PinCoordinates(c.nodes[pin.parent_node_id].rect, pin.kind)
        c1 == [c EXCEPT !.pins[pin_id].pos = pos]
        pin_hovered == c.hovered_pin_id = pin_id /\ c.click_interaction_type # "BoxSelection"
        c2 == IF pin_hovered THEN [c1 EXCEPT !.hovered_pin_flags = pin.flags] ELSE c1
    IN  IF /\ pin_hovered
           /\ c.left_mouse_pressed
           /\ (pin.kind = "Output" \/ c.hovered_link_id # None)
        THEN BeginLinkCreation(c2, pin_id)
        ELSE c2

RECURSIVE DrawPins(_, _)
\* the loop of draw_node over node.pin_ids (a HashSet: the order is arbitrary, and
\* at most one pin, the hovered one, does more than take its position)
DrawPins(c, pin_ids) ==
    IF pin_ids = {} \/ c.panicked THEN c
    ELSE LET p == CHOOSE x \in pin_ids : TRUE
         IN  DrawPins(DrawPin(c, p), pin_ids \ {p})

\* Context::draw_node
DrawNode(c, node_id) ==
    IF node_id \notin DOMAIN c.nodes THEN Panic(c)
    ELSE IF ~c.nodes[node_id].in_use THEN c
    ELSE
    LET node_hovered == c.hovered_node_id = node_id
                        /\ c.click_interaction_type # "BoxSelection"
        c1 == DrawPins(c, c.nodes[node_id].pin_ids)
    IN  IF c1.panicked THEN c1
        ELSE IF node_hovered /\ c1.left_mouse_pressed /\ c1.interactive_node_id # node_id
             THEN BeginNodeSelection(c1, node_id)
             ELSE c1

RECURSIVE DrawNodes(_, _)
\* lib.rs:202-204
DrawNodes(c, ids) ==
    IF ids = <<>> \/ c.panicked THEN c
    ELSE DrawNodes(DrawNode(c, Head(ids)), Tail(ids))

\* Context::draw_link; drawn_links collects the links handed to the painter
DrawLink(c, link_id) ==
    LET link == c.links[link_id]
    IN  IF \/ ~link.in_use
           \/ link.start_pin_id \notin DOMAIN c.pins
           \/ link.end_pin_id \notin DOMAIN c.pins
        THEN c
        ELSE LET link_hovered == c.hovered_link_id = link_id
                                 /\ c.click_interaction_type # "BoxSelection"
                 c1 == IF link_hovered /\ c.left_mouse_pressed
                       THEN BeginLinkInteraction(c, link_id)
                       ELSE c
             IN  IF c1.panicked \/ c1.detached_link_id = link_id THEN c1
                 ELSE [c1 EXCEPT !.drawn_links = @ \cup {link_id}]

RECURSIVE DrawLinks(_, _)
\* lib.rs:206-209
DrawLinks(c, ids) ==
    IF ids = <<>> \/ c.panicked THEN c
    ELSE DrawLinks(DrawLink(c, Head(ids)), Tail(ids))

----------------------------------------------------------------------------
(* The purge at the end of the frame (lib.rs:215-226) *)

\* a purge that leaves the depth order alone
PurgeKeepingDepthOrder(c) ==
    LET keep_nodes == {n \in DOMAIN c.nodes : c.nodes[n].in_use}
        keep_pins == {p \in DOMAIN c.pins : c.pins[p].in_use}
        keep_links == {l \in DOMAIN c.links : c.links[l].in_use}
    IN  IF c.panicked THEN c ELSE
        [c EXCEPT
            !.nodes = [n \in keep_nodes |-> [c.nodes[n] EXCEPT !.pin_ids = {}]],
            !.node_keys = SeqKeep(@, keep_nodes),
            !.pins = MapRestrict(@, keep_pins),
            !.pin_keys = SeqKeep(@, keep_pins),
            !.links = MapRestrict(@, keep_links),
            !.link_keys = SeqKeep(@, keep_links)]

Purge(c) ==
    LET keep_nodes == {n \in DOMAIN c.nodes : c.nodes[n].in_use}
        keep_pins == {p \in DOMAIN c.pins : c.pins[p].in_use}
        keep_links == {l \in DOMAIN c.links : c.links[l].in_use}
    IN  IF c.panicked THEN c ELSE
        [c EXCEPT
            !.nodes = [n \in keep_nodes |-> [c.nodes[n] EXCEPT !.pin_ids = {}]],
            !.node_keys = SeqKeep(@, keep_nodes),
            !.node_depth_order = SeqFilterOut(@, (DOMAIN c.nodes) \ keep_nodes),
            !.pins = MapRestrict(@, keep_pins),
            !.pin_keys = SeqKeep(@, keep_pins),
            !.links = MapRestrict(@, keep_links),
            !.link_keys = SeqKeep(@, keep_links)]

----------------------------------------------------------------------------
(* Context::end_frame (lib.rs:141-235) *)

\* lib.rs:198-200
ResolveHoveredLinkIfNoNode(c) ==
    IF ~c.panicked /\ c.mouse_in_canvas /\ c.hovered_node_id = None
    THEN ResolveHoveredLink(c) ELSE c

\* lib.rs:202-204
DrawAllNodes(c) == DrawNodes(c, c.node_depth_order)

\* lib.rs:206-209
DrawAllLinks(c) == DrawLinks(c, c.link_keys)

\* lib.rs:211-213
CanvasInteraction(c) ==
    IF ~c.panicked /\ (c.left_mouse_pressed \/ c.alt_mouse_clicked)
    THEN BeginCanvasInteraction(c) ELSE c

EndFrameCtx(c, inp) ==
    IF c.panicked THEN c
    ELSE Purge(CanvasInteraction(DrawAllLinks(DrawAllNodes(
             ResolveHoveredLinkIfNoNode(ClickInteractionUpdate(
                 HitTest(EndFrameInput(c, inp))))))))

\* the frames the model follows: origins and pan offset stay on the bounded canvas
WithinCanvas(c) ==
    /\ \A n \in DOMAIN c.nodes :
          c.nodes[n].origin >= 0 /\ c.nodes[n].origin <= MaxOriginCell * CellSize
    /\ c.panning >= -(MaxPanCell * CellSize) /\ c.panning <= MaxPanCell * CellSize

\* MyApp::interact_and_draw (main.rs:131-208): one frame
FrameCtx(c, h, inp) ==
    EndFrameCtx(AddLinks(ShowNodes(BeginFrameCtx(c), h, h.nodes, inp), h.links), inp)

\* Response::is_pointer_button_down_on of an attribute (lib.rs:452): the press
\* began on the attribute, inside the rect its node had, and the button is held
\* since, or it is reported for no attribute
PointerButtonDownOn(c, h, pos, down, attr_down) ==
    \/ attr_down = None
    \/ /\ down
       /\ pos # <<>>
       /\ attr_down \in DeclaredPins(h)
       /\ IF c.left_mouse_pressed \/ c.left_mouse_dragging
          THEN c.active_attribute /\ c.active_attribute_id = attr_down
          ELSE /\ attr_down \in DOMAIN c.pins
               /\ c.pins[attr_down].parent_node_id \in DOMAIN c.nodes
               /\ RectContains(c.nodes[c.pins[attr_down].parent_node_id].rect, pos[1])

Frame ==
    /\ ~ctx.panicked
    /\ frames < host.budget
    /\ \E pos \in PointerPositions(host), down \in BOOLEAN, alt \in host.alts,
          attr_down \in host.attr_downs :
          LET next == FrameCtx(ctx, host, Input(pos, down, alt, {}, attr_down))
          IN  /\ PointerButtonDownOn(ctx, host, pos, down, attr_down)
              /\ WithinCanvas(next)
              /\ ctx' = next
    /\ frames' = frames + 1
    /\ UNCHANGED <<host, fan>>

\* Context::reset_panning (lib.rs:332-334), called between two frames
ResetPanning ==
    /\ ~ctx.panicked
    /\ host.edits < host.edit_budget
    /\ \E panning \in {k * CellSize : k \in -MaxPanCell..MaxPanCell} :
          /\ panning # ctx.panning
          /\ ctx' = [ctx EXCEPT !.panning = panning]
    /\ host' = [host EXCEPT !.edits = @ + 1]
    /\ UNCHANGED <<frames, fan>>

----------------------------------------------------------------------------
(* The host between frames (main.rs:258-303, 305-333): it removes nodes and   *)
(* links from its lists and adds them.                                        *)

HostRemoveNode ==
    /\ ~ctx.panicked
    /\ host.edits < host.edit_budget
    /\ \E i \in DOMAIN host.nodes :
          host' = [host EXCEPT !.nodes = SeqFilterOut(@, {host.nodes[i]}),
                               !.edits = @ + 1]
    /\ UNCHANGED <<ctx, frames, fan>>

HostAddNode ==
    /\ ~ctx.panicked
    /\ host.edits < host.edit_budget
    /\ \E n \in host.nodePool \ Range(host.nodes) :
          host' = [host EXCEPT !.nodes = Append(@, n), !.edits = @ + 1]
    /\ UNCHANGED <<ctx, frames, fan>>

HostRemoveLink ==
    /\ ~ctx.panicked
    /\ host.edits < host.edit_budget
    /\ \E i \in DOMAIN host.links :
          host' = [host EXCEPT !.links = SeqFilterOut(@, {host.links[i]}),
                               !.edits = @ + 1]
    /\ UNCHANGED <<ctx, frames, fan>>

HostAddLink ==
    /\ ~ctx.panicked
    /\ host.edits < host.edit_budget
    /\ \E l \in host.linkPool \ Range(host.links) :
          host' = [host EXCEPT !.links = Append(@, l), !.edits = @ + 1]
    /\ UNCHANGED <<ctx, frames, fan>>

----------------------------------------------------------------------------
(* The fan-out of the links at one end pin, step by step: add_link fills       *)
(* end_pin_link_mapping (lib.rs:467-470), draw_pin and draw_link count the     *)
(* links of the pin (lib.rs:721-725, 879-880) and calculate_link_end_pos       *)
(* places the link of each index (lib.rs:739-741, style.rs:249-263).           *)

\* the links the host may declare: all but the last end at p2, the last at p4
FanLinks == 1..MaxFanLinks

FanEndPin(link_id) == IF link_id < MaxFanLinks THEN "p2" ELSE "p4"

\* the values of Context::partial_link (lib.rs:86, 1127-1130): none, a link not
\* snapped to a pin, and links snapped to p2 or p4, one of them from p2 itself
FanPartialLinks ==
    {<<>>, <<[start |-> "p1", end |-> None]>>, <<[start |-> "p1", end |-> "p2"]>>,
     <<[start |-> "p2", end |-> "p2"]>>, <<[start |-> "p1", end |-> "p4"]>>}

\* begin_frame has cleared end_pin_link_mapping (lib.rs:103)
FanDefault ==
    [end_pin_link_mapping |-> EmptyMap, declared |-> {}, partial_link |-> <<>>,
     pin_id |-> None, link_count |-> <<>>, link_index |-> <<>>, angle |-> <<>>]

\* Context::add_link, its first statement (lib.rs:467-470)
FanAddLink ==
    /\ fan.link_count = <<>>
    /\ \E id \in FanLinks \ fan.declared :
          LET end_pin_id == FanEndPin(id)
              old == IF end_pin_id \in DOMAIN fan.end_pin_link_mapping
                     THEN fan.end_pin_link_mapping[end_pin_id] ELSE <<>>
          IN  fan' = [fan EXCEPT
                        !.end_pin_link_mapping = MapPut(@, end_pin_id, Append(old, id)),
                        !.declared = @ \cup {id}]
    /\ UNCHANGED <<ctx, host, frames>>

\* the call of link_count_for_end_pin in draw_pin and draw_link
FanCount ==
    /\ fan.link_count = <<>>
    /\ fan' = [fan EXCEPT
                 !.link_count = <<LinkCountForEndPin(fan.end_pin_link_mapping, fan.pin_id,
                                                     fan.partial_link)>>]
    /\ UNCHANGED <<ctx, host, frames>>

\* the call of calculate_link_end_pos for the link of one index (lib.rs:737-744)
FanAngle ==
    /\ fan.link_count # <<>>
    /\ fan.link_count[1] > 1
    /\ fan.angle = <<>>
    /\ \E link_index \in 0..(fan.link_count[1] - 1) :
          fan' = [fan EXCEPT !.link_index = <<link_index>>,
                             !.angle = <<LinkEndAngle8(fan.link_count[1], link_index)>>]
    /\ UNCHANGED <<ctx, host, frames>>

\* the links of the index check and the pins they may start from: p1 and p3 lie
\* left of the end pin p2, p5 lies right of it
IndexLinks == {"l1", "l2", "l3"}

IndexStartPins == {"p1", "p3", "p5"}

IndexPins ==
    [p \in IndexStartPins \cup {"p2"} |->
        [pos |-> CASE p = "p1" -> 2 * CellSize [] p = "p3" -> 3 * CellSize
                   [] p = "p2" -> 4 * CellSize [] OTHER -> 6 * CellSize]]

\* the values of Context::partial_link: none, and links snapped to p2 from the
\* left and from the right
IndexPartialLinks ==
    {<<>>, <<[start |-> "p1", end |-> "p2"]>>, <<[start |-> "p5", end |-> "p2"]>>}

\* begin_frame has cleared end_pin_link_mapping (lib.rs:103); no link is declared
IndexDefault ==
    [end_pin_link_mapping |-> EmptyMap, links |-> EmptyMap, partial_link |-> <<>>,
     drawn |-> FALSE, index |-> EmptyMap]

\* Context::add_link of a link that ends at p2 (lib.rs:459-493)
IndexAddLink ==
    /\ ~fan.drawn
    /\ \E id \in IndexLinks \ DOMAIN fan.links, start_pin_id \in IndexStartPins :
          LET old == IF "p2" \in DOMAIN fan.end_pin_link_mapping
                     THEN fan.end_pin_link_mapping["p2"] ELSE <<>>
          IN  fan' = [fan EXCEPT
                        !.end_pin_link_mapping = MapPut(@, "p2", Append(old, id)),
                        !.links = MapPut(@, id, [start_pin_id |-> start_pin_id,
                                                 end_pin_id |-> "p2"])]
    /\ UNCHANGED <<ctx, host, frames>>

\* the calls of link_index_for_end_pin of one frame: draw_link for every link
\* (lib.rs:726-735) and the provisional link snapped to the pin (lib.rs:1144-1153)
IndexDrawLinks ==
    /\ ~fan.drawn
    /\ fan.links # EmptyMap
    /\ LET ids == DOMAIN fan.links
                    \cup (IF fan.partial_link # <<>> THEN {NilId} ELSE {})
           start_pos(id) == IF id = NilId THEN IndexPins[fan.partial_link[1].start].pos
                            ELSE IndexPins[fan.links[id].start_pin_id].pos
       IN  fan' = [fan EXCEPT
                     !.drawn = TRUE,
                     !.index = [id \in ids |->
                                   LinkIndexForEndPin(fan.end_pin_link_mapping, fan.links,
                                                      IndexPins, fan.partial_link, "p2",
                                                      id, start_pos(id))]]
    /\ UNCHANGED <<ctx, host, frames>>

----------------------------------------------------------------------------
(* Specifications *)

InitWith(h) ==
    /\ ctx = ContextDefault
    /\ host = h
    /\ frames = 0
    /\ fan = FanDefault

\* the host declares three nodes, n3 partly over n1 and over its pin p1, and no
\* links; the pointer roams the canvas and may leave it
Init ==
    InitWith([Host(<<"n1", "n2", "n3">>, <<>>) EXCEPT
                 !.pins = {"p1", "p2", "p3"}, !.leave = {<<>>}])

Next == Frame

Spec == Init /\ [][Next]_vars

\* the host declares two nodes and a link between them, and edits its lists
\* between frames (context menu, main.rs:267-333; link events, main.rs:212-248)
InitStore ==
    InitWith([Host(<<"n1", "n2">>, <<"l1">>) EXCEPT
                 !.nodePool = {"n1", "n2", "n3"}, !.linkPool = {"l1", "l2"},
                 !.cells = {1, 5, 7}])

NextStore ==
    \/ Frame
    \/ HostRemoveNode
    \/ HostAddNode
    \/ HostRemoveLink
    \/ HostAddLink

SpecStore == InitStore /\ [][NextStore]_vars

\* the host declares three nodes, none hiding a pin of another, and a link from
\* p3 to p2; p2 detaches on a drag click and creates on snap; the host adds and
\* removes links between frames (link events, main.rs:212-248); the pointer is
\* sampled at the four pins and on the empty canvas
InitLinks ==
    InitWith([Host(<<"n3", "n1", "n2">>, <<"l2">>) EXCEPT
                 !.linkPool = {"l1", "l2"},
                 !.p2flags = EnableLinkDetachWithDragClick + EnableLinkCreationOnSnap,
                 !.cells = {0, 2, 3, 4, 7},
                 !.budget = MaxFrames - 1])

\* the fan-out functions alone: any partial link, either input pin hovered, the
\* host declaring its links in any order
InitFan ==
    /\ ctx = ContextDefault
    /\ host = Host(<<>>, <<>>)
    /\ frames = 0
    /\ \E partial_link \in FanPartialLinks, pin_id \in {"p2", "p4"} :
          fan = [FanDefault EXCEPT !.partial_link = partial_link, !.pin_id = pin_id]

NextFan ==
    \/ FanAddLink
    \/ FanCount
    \/ FanAngle

SpecFan == InitFan /\ [][NextFan]_vars

InitIndex ==
    /\ ctx = ContextDefault
    /\ host = Host(<<>>, <<>>)
    /\ frames = 0
    /\ \E partial_link \in IndexPartialLinks :
          fan = [IndexDefault EXCEPT !.partial_link = partial_link]

NextIndex ==
    \/ IndexAddLink
    \/ IndexDrawLinks

SpecIndex == InitIndex /\ [][NextIndex]_vars

\* the host declares three nodes, n3 partly over n1; the pointer is sampled on n1
\* alone, on n1 and n3, on n2 and on the empty canvas, and the press may go down
\* on the attribute of pin p1 or of pin p2
InitAttr ==
    InitWith([Host(<<"n1", "n2", "n3">>, <<>>) EXCEPT
                 !.pins = {"p1", "p2", "p3"}, !.cells = {0, 1, 5, 7},
                 !.attr_downs = {None, "p1", "p2"}])

NextAttr == Frame

SpecAttr == InitAttr /\ [][NextAttr]_vars

\* the host declares n1, n4 and n2 and the link from p1 of n1 to p2 of n2, which
\* passes over the input pin p6 of n4; p6 detaches links on a drag click; the
\* pointer is sampled at the three pins and on the empty canvas
InitCross ==
    InitWith([Host(<<"n1", "n4", "n2">>, <<"l1">>) EXCEPT
                 !.pins = {"p1", "p2", "p6"}, !.cells = {2, 3, 4, 7}])

NextCross ==
    \/ Frame
    \/ HostRemoveLink

SpecCross == InitCross /\ [][NextCross]_vars

\* the host declares two nodes and the link between them; the pointer is sampled
\* on n1, on the link, at the edge of n2 and on the empty canvas, may leave the
\* canvas, the pan button is used, and the host may reset the pan offset
InitPan ==
    InitWith([Host(<<"n1", "n2">>, <<"l1">>) EXCEPT
                 !.pins = {"p1", "p2"}, !.cells = {1, 3, 6, 7}, !.leave = {<<>>},
                 !.alts = BOOLEAN, !.budget = MaxFrames - 1])

NextPan ==
    \/ Frame
    \/ ResetPanning

SpecPan == InitPan /\ [][NextPan]_vars

\* the host declares two nodes and the link from p1 to p2 and may stop declaring
\* a node while it keeps declaring the link (remove_node without the retain of
\* ui_links, main.rs:286, 299); the pointer is sampled at the two pins and on the
\* empty canvas and may leave the canvas
InitDangling ==
    InitWith([Host(<<"n1", "n2">>, <<"l1">>) EXCEPT
                 !.pins = {"p1", "p2"}, !.cells = {2, 4, 7}, !.leave = {<<>>}])

NextDangling ==
    \/ Frame
    \/ HostRemoveNode

SpecDangling == InitDangling /\ [][NextDangling]_vars

\* the host declares n3 and n2 and the link from p3 to p2, whose end pin p2
\* detaches on a drag click, and removes the link when it likes (the detached
\* link event, main.rs:212-219); the pointer is sampled at the two pins and on
\* the empty canvas
InitDetach ==
    InitWith([Host(<<"n3", "n2">>, <<"l2">>) EXCEPT
                 !.pins = {"p2", "p3"}, !.p2flags = EnableLinkDetachWithDragClick,
                 !.cells = {3, 4, 7}])

NextDetach ==
    \/ Frame
    \/ HostRemoveLink

SpecDetach == InitDetach /\ [][NextDetach]_vars

\* the host declares n3, n1 and n2 and no link; the input pins p2 and p4 create a
\* link as soon as a dragged link snaps to them, and the host may declare the
\* link from p3 to p2 once it has been created
InitSnap ==
    InitWith([Host(<<"n3", "n1", "n2">>, <<>>) EXCEPT
                 !.linkPool = {"l2"}, !.pins = {"p2", "p3", "p4"},
                 !.p2flags = EnableLinkCreationOnSnap,
                 !.p4flags = EnableLinkCreationOnSnap,
                 !.cells = {0, 3, 4, 7}])

NextSnap ==
    \/ Frame
    \/ HostAddLink

SpecSnap == InitSnap /\ [][NextSnap]_vars

\* the host declares n1 and n2 without pins and may remove a node and declare it
\* again later (context menu, main.rs:267-333)
InitRecreate ==
    InitWith([Host(<<"n1", "n2">>, <<>>) EXCEPT
                 !.nodePool = {"n1", "n2"}, !.pins = {}, !.cells = {1, 5, 7},
                 !.edit_budget = MaxHostEdits + 1])

NextRecreate ==
    \/ Frame
    \/ HostRemoveNode
    \/ HostAddNode

SpecRecreate == InitRecreate /\ [][NextRecreate]_vars

NextLinks ==
    \/ Frame
    \/ HostRemoveLink
    \/ HostAddLink

SpecLinks == InitLinks /\ [][NextLinks]_vars

----------------------------------------------------------------------------
(* Properties *)

\* a step of the action Frame
FrameStep == frames' = frames + 1

\* C1: after every frame that completes, the node, pin and link stores hold
\* exactly the entities declared in that frame (whatever was not re-declared is
\* gone, whatever was declared is kept), and the depth order names no node that
\* was not declared in the frame.
PurgeKeepsExactlyDeclared ==
    [][FrameStep /\ ~ctx'.panicked =>
          /\ DOMAIN ctx'.nodes = DeclaredNodes(host)
          /\ Range(ctx'.node_keys) = DeclaredNodes(host)
          /\ DOMAIN ctx'.pins = DeclaredPins(host)
          /\ Range(ctx'.pin_keys) = DeclaredPins(host)
          /\ DOMAIN ctx'.links = DeclaredLinks(host)
          /\ Range(ctx'.link_keys) = DeclaredLinks(host)
          /\ Range(ctx'.node_depth_order) \subseteq DeclaredNodes(host)]_vars

\* the nodes whose rect contains the pointer (lib.rs:424-428)
NodesUnderPointer(c) ==
    {n \in DOMAIN c.nodes : c.nodes[n].in_use /\ RectContains(c.nodes[n].rect, c.mouse_pos)}

\* the depth order hit testing sees in a frame: the order left by the frame
\* before, with the nodes new in this frame appended as they are declared
\* (lib.rs:363-370)
DepthOrderAtHitTest ==
    ctx.node_depth_order
        \o SeqFilterOut(host.nodes, (DOMAIN ctx.nodes) \cup Range(ctx.node_depth_order))

\* C3: in a frame with the pointer inside the canvas and no pin hovered, the
\* hovered node is none when no declared node's rect contains the pointer, and
\* otherwise the node, among those whose rect contains the pointer, with the
\* greatest index in the depth order (the only one, if there is only one).
HoveredNodeIsTopmostUnderPointer ==
    [][FrameStep /\ ~ctx'.panicked /\ ctx'.mouse_in_canvas /\ ctx'.hovered_pin_id = None =>
          LET under == NodesUnderPointer(ctx')
              order == DepthOrderAtHitTest
              at == {i \in DOMAIN order : order[i] \in under}
          IN  IF under = {} THEN ctx'.hovered_node_id = None
              ELSE /\ at # {}
                   /\ ctx'.hovered_node_id = order[CHOOSE i \in at : \A j \in at : j <= i]]_vars

\* n1 has been raised above n3, which the host declares after it, and is hovered
\* where the two overlap
RaisedNodeHoveredInOverlap ==
    /\ ~ctx.panicked
    /\ ctx.mouse_in_canvas
    /\ ctx.hovered_pin_id = None
    /\ {"n1", "n3"} \subseteq NodesUnderPointer(ctx)
    /\ ctx.hovered_node_id = "n1"

\* the position of a node in the depth order, 0 if it is not in it
DepthOf(c, n) ==
    LET at == {i \in DOMAIN c.node_depth_order : c.node_depth_order[i] = n}
    IN  IF at = {} THEN 0 ELSE CHOOSE i \in at : TRUE

\* the position resolved for pin p lies inside the rect of a node that is higher
\* in the depth order than the node that owns p
UnderHigherNode(c, p) ==
    /\ p \in DOMAIN c.pins
    /\ \E m \in DOMAIN c.nodes :
          /\ DepthOf(c, m) > DepthOf(c, c.pins[p].parent_node_id)
          /\ RectContains(c.nodes[m].rect, c.pins[p].pos)

\* C4 (as stated): after every frame the hovered pin is not a pin whose resolved
\* position lies inside the rect of a node higher in the depth order than its own.
HoveredPinNeverUnderHigherNode ==
    (~ctx.panicked /\ ctx.hovered_pin_id # None) => ~UnderHigherNode(ctx, ctx.hovered_pin_id)

\* C5: in every frame that the interaction update enters in BoxSelection mode
\* (the release frame included), the selected nodes after the frame are exactly
\* the nodes declared in the frame whose rect intersects the normalised rectangle
\* between the anchor and the pointer, each once; and the anchor is the pointer
\* position of the frame in which the box selection began.
BoxSelectionSelectsIntersectingNodes ==
    [][FrameStep /\ ~ctx'.panicked =>
          /\ ctx.click_interaction_type = "BoxSelection" =>
                LET box == NormalisedBox(Rect(ctx.box_selection.min, ctx'.mouse_pos))
                    inside == {n \in DeclaredNodes(host) :
                                 RectIntersects(box, ctx'.nodes[n].rect)}
                IN  /\ Range(ctx'.selected_node_ids) = inside
                    /\ Len(ctx'.selected_node_ids) = Cardinality(inside)
                    /\ ctx'.box_selection.min = ctx.box_selection.min
          /\ (ctx.click_interaction_type # "BoxSelection"
                 /\ ctx'.click_interaction_type = "BoxSelection") =>
                ctx'.box_selection.min = ctx'.mouse_pos]_vars

\* a box selection is being dragged over n1 and over the place of n2, which the
\* host has stopped declaring: only n1 is selected
BoxOverRemovedNode ==
    /\ ~ctx.panicked
    /\ ctx.click_interaction_type = "BoxSelection"
    /\ ctx.left_mouse_dragging
    /\ "n2" \notin DOMAIN ctx.nodes
    /\ RectIntersects(NormalisedBox(ctx.box_selection), Rect(HostOrigin("n2"), HostOrigin("n2")))
    /\ ctx.selected_node_ids = <<"n1">>

\* Context::created_link (lib.rs:302-322) reports a link in this frame
LinkCreatedFlag == HasFlag(ctx.element_state_change, LinkCreated)

\* a created_link that reports the pins as the creation recorded them
CreatedLinkAsRecorded(c) ==
    IF ~HasFlag(c.element_state_change, LinkCreated) THEN <<>>
    ELSE <<[start |-> c.link_creation.start_pin_id,
            end |-> c.link_creation.end_pin_id,
            from_snap |-> c.click_interaction_type = "LinkCreation"]>>

\* Context::created_link (lib.rs:302-322) where its unwraps succeed
CreatedLink(c) ==
    IF ~HasFlag(c.element_state_change, LinkCreated) THEN <<>>
    ELSE LET start_pin_id == c.link_creation.start_pin_id
             end_pin_id == c.link_creation.end_pin_id
             created_from_snap == c.click_interaction_type = "LinkCreation"
         IN  IF c.pins[start_pin_id].kind # "Output"
             THEN <<[start |-> end_pin_id, end |-> start_pin_id, from_snap |-> created_from_snap]>>
             ELSE <<[start |-> start_pin_id, end |-> end_pin_id, from_snap |-> created_from_snap]>>

\* Context::created_link (lib.rs:302-322) fails on one of its unwraps
CreatedLinkAborts(c) ==
    /\ HasFlag(c.element_state_change, LinkCreated)
    /\ \/ c.link_creation.end_pin_id = None
       \/ c.link_creation.start_pin_id \notin DOMAIN c.pins

\* the links declared in the frame that join pins a and b, in either direction
DeclaredLinksBetween(c, a, b) ==
    {l \in DOMAIN c.links :
        {c.links[l].start_pin_id, c.links[l].end_pin_id} = {a, b}}

\* C6: a link dragged from output pin P of node A (creation type Standard) whose
\* frame sees the button released: with input pin Q of another node hovered, Q
\* without the creation-on-snap flag and no link between P and Q, the frame
\* reports created_link() = (P, Q, false) and no LinkDropped; with no pin hovered
\* it sets LinkDropped and created_link() is none.  The mode is Idle afterwards.
ReleaseOfDraggedLinkCreatesOrDrops ==
    [][(/\ FrameStep
        /\ ~ctx'.panicked
        /\ ctx.click_interaction_type = "LinkCreation"
        /\ ctx.link_creation.link_creation_type = "Standard"
        /\ ctx.link_creation.start_pin_id \in DOMAIN ctx'.pins
        /\ ctx'.pins[ctx.link_creation.start_pin_id].kind = "Output"
        /\ ctx'.left_mouse_released) =>
          LET P == ctx.link_creation.start_pin_id
              Q == ctx'.hovered_pin_id
          IN  /\ (/\ Q # None
                  /\ ctx'.pins[Q].kind = "Input"
                  /\ ctx'.pins[Q].parent_node_id # ctx'.pins[P].parent_node_id
                  /\ ~LinkCreationOnSnapEnabled(ctx'.pins[Q])
                  /\ DeclaredLinksBetween(ctx', P, Q) = {}) =>
                    /\ ~CreatedLinkAborts(ctx')
                    /\ CreatedLink(ctx') = <<[start |-> P, end |-> Q, from_snap |-> FALSE]>>
                    /\ ~HasFlag(ctx'.element_state_change, LinkDropped)
                    /\ ctx'.click_interaction_type = "None"
              /\ Q = None =>
                    /\ HasFlag(ctx'.element_state_change, LinkDropped)
                    /\ CreatedLink(ctx') = <<>>
                    /\ ctx'.click_interaction_type = "None"]_vars

\* C8: when a box selection is released, node_depth_order after the frame is the
\* non-selected nodes in their previous relative order followed by the selected
\* nodes in their previous relative order, it holds the same ids as before, each
\* once, and the mode is None.
BoxReleaseRaisesSelectedNodes ==
    [][(/\ FrameStep
        /\ ~ctx'.panicked
        /\ ctx.click_interaction_type = "BoxSelection"
        /\ ctx'.left_mouse_released) =>
          LET before == ctx.node_depth_order
              after == ctx'.node_depth_order
              sel == Range(ctx'.selected_node_ids)
              IsSel(n) == n \in sel
              NotSel(n) == n \notin sel
          IN  /\ after = SelectSeq(before, NotSel) \o SelectSeq(before, IsSel)
              /\ Range(after) = Range(before)
              /\ Len(after) = Cardinality(Range(before))
              /\ ctx'.click_interaction_type = "None"]_vars

\* a box dragged from the empty canvas has been released over n2 and n3, which
\* now lie above n1
BoxReleasedOverTwoNodes ==
    /\ ~ctx.panicked
    /\ ctx.left_mouse_released
    /\ ctx.click_interaction_type = "None"
    /\ ctx.box_selection.min = MaxCell * CellSize
    /\ ctx.box_selection.max = ctx.mouse_pos
    /\ ctx.selected_node_ids = <<"n2", "n3">>
    /\ ctx.node_depth_order = <<"n1", "n2", "n3">>

\* C10: end_frame does not abort on a missing entity: when a node of the
\* selected-node list has stopped being declared and has been purged, and another
\* node of that selection, still declared, is pressed and dragged, the drag frame
\* completes and the purged node stays absent.
DragOfSelectionWithPurgedNodeCompletes ==
    [][(/\ FrameStep
        /\ ctx.click_interaction_type = "Node"
        /\ ctx'.left_mouse_dragging
        /\ \E gone \in Range(ctx.selected_node_ids) :
              gone \notin DOMAIN ctx.nodes /\ gone \notin DeclaredNodes(host)
        /\ \E kept \in Range(ctx.selected_node_ids) :
              kept \in DOMAIN ctx.nodes /\ kept \in DeclaredNodes(host)) =>
          /\ ~ctx'.panicked
          /\ DOMAIN ctx'.nodes = DeclaredNodes(host)]_vars

\* the siblings that end at p2 in declaration order, the provisional link last,
\* each with the angle from its start pin to p2
IndexSiblings ==
    LET ids == fan.end_pin_link_mapping["p2"]
        stored == [i \in DOMAIN ids |->
                      [id |-> ids[i],
                       angle |-> Angle8(IndexPins["p2"].pos,
                                        IndexPins[fan.links[ids[i]].start_pin_id].pos)]]
    IN  IF fan.partial_link = <<>> THEN stored
        ELSE Append(stored,
                    [id |-> NilId,
                     angle |-> Angle8(IndexPins["p2"].pos,
                                      IndexPins[fan.partial_link[1].start].pos)])

\* the siblings by descending angle, equal angles in declaration order
IndexSiblingsByAngle == SortDescending(IndexSiblings, <<>>)

\* C14: the indices that link_index_for_end_pin gives in one frame to the N
\* links that end at one pin (the provisional link included when it targets the
\* pin) are a permutation of 0..N-1: no two siblings have the same index, and
\* the index of a sibling is its place in the order by descending angle from
\* start pin to end pin, equal angles in declaration order.
LinkIndicesArePermutationInAngleOrder ==
    fan.drawn =>
        LET N == Len(IndexSiblingsByAngle)
        IN  /\ DOMAIN fan.index = {IndexSiblingsByAngle[i].id : i \in 1..N}
            /\ \A id \in DOMAIN fan.index : fan.index[id] # <<>>
            /\ {fan.index[id][1] : id \in DOMAIN fan.index} = 0..(N - 1)
            /\ \A i \in 1..N : fan.index[IndexSiblingsByAngle[i].id] = <<i - 1>>

\* the indices of siblings of pairwise distinct angles are their places in the
\* order by descending angle
LinkIndicesOfDistinctAnglesInAngleOrder ==
    (/\ fan.drawn
     /\ \A i, j \in DOMAIN IndexSiblings :
           i # j => IndexSiblings[i].angle # IndexSiblings[j].angle) =>
        \A i \in DOMAIN IndexSiblingsByAngle :
            fan.index[IndexSiblingsByAngle[i].id] = <<i - 1>>

\* C13: a link creation that began by detaching link L and is released without a
\* valid snap reports dropped_link() = L in the release frame; a creation that
\* did not begin by a detach and is released without a valid snap reports no
\* dropped link, also after an earlier interaction detached a link.  Stated
\* frame by frame: the frame that begins a creation records whether it detached
\* a link and which; the frames of the creation keep the record; the frame that
\* drops the creation reports the recorded link, or none.
DroppedLinkIsTheDetachedLink ==
    [][(FrameStep /\ ~ctx'.panicked) =>
          /\ (/\ ctx.click_interaction_type # "LinkCreation"
              /\ ctx'.click_interaction_type = "LinkCreation") =>
                IF ctx'.detached_link_id # None
                THEN /\ ctx'.link_creation.link_creation_type = "FromDetach"
                     /\ ctx'.link_creation.detached_link_id = ctx'.detached_link_id
                ELSE ctx'.link_creation.link_creation_type = "Standard"
          /\ ctx.click_interaction_type = "LinkCreation" =>
                /\ ctx'.link_creation.link_creation_type
                       = ctx.link_creation.link_creation_type
                /\ ctx'.link_creation.detached_link_id = ctx.link_creation.detached_link_id
          /\ (/\ ctx.click_interaction_type = "LinkCreation"
              /\ ctx'.left_mouse_released
              /\ HasFlag(ctx'.element_state_change, LinkDropped)) =>
                ctx'.dropped_link_id =
                    IF ctx.link_creation.link_creation_type = "FromDetach"
                    THEN ctx.link_creation.detached_link_id
                    ELSE None
          /\ ~HasFlag(ctx'.element_state_change, LinkDropped) =>
                ctx'.dropped_link_id = None]_vars

\* the creation that began by detaching l2 from p2 has been released over the
\* empty canvas
DetachedLinkDropped ==
    /\ ~ctx.panicked
    /\ ctx.left_mouse_released
    /\ ctx.hovered_pin_id = None
    /\ HasFlag(ctx.element_state_change, LinkDropped)
    /\ ctx.link_creation.link_creation_type = "FromDetach"
    /\ ctx.dropped_link_id = "l2"

\* the kind of a pin that the frame just completed had in its store: as declared
\* in the frame, or as stored by the previous frame and purged at the end of
\* this one
PinKindInFrame(p) ==
    IF p \in DOMAIN ctx'.pins THEN ctx'.pins[p].kind ELSE ctx.pins[p].kind

\* C12: whenever created_link() returns (s, e, _), s is an Output pin and e is an
\* Input pin, whichever of the two the drag started from.
CreatedLinkIsOutputToInput ==
    [][(/\ FrameStep
        /\ ~ctx'.panicked
        /\ ~CreatedLinkAborts(ctx')
        /\ CreatedLink(ctx') # <<>>) =>
          /\ PinKindInFrame(CreatedLink(ctx')[1].start) = "Output"
          /\ PinKindInFrame(CreatedLink(ctx')[1].end) = "Input"]_vars

\* a link dragged from the input pin p2 has been released over the output pin p1
\* and is reported from p1 to p2
CreatedFromInputPin ==
    /\ ~ctx.panicked
    /\ ctx.link_creation.start_pin_id = "p2"
    /\ ctx.link_creation.end_pin_id = "p1"
    /\ ~CreatedLinkAborts(ctx)
    /\ CreatedLink(ctx) = <<[start |-> "p1", end |-> "p2", from_snap |-> FALSE]>>

\* the pin store that add_link sees in the frame being run: the pins stored by the
\* earlier frames and the pins declared in this one
PinStoreAtAddLink == DOMAIN ctx.pins \cup DeclaredPins(host)

\* the links declared in the frame with a start or end pin that is not in the pin
\* store
DanglingDeclaredLinks ==
    {l \in DeclaredLinks(host) :
        \/ HostLinkPins(l)[1] \notin PinStoreAtAddLink
        \/ HostLinkPins(l)[2] \notin PinStoreAtAddLink}

\* C11: declaring a link whose start or end pin is not in the pin store is not
\* fatal in any mode: the frame completes, the link is stored and it is skipped
\* (not drawn, not hovered).
AddLinkWithMissingPinCompletes ==
    [][(FrameStep /\ DanglingDeclaredLinks # {}) =>
          /\ ~ctx'.panicked
          /\ DanglingDeclaredLinks \subseteq DOMAIN ctx'.links
          /\ DanglingDeclaredLinks \cap ctx'.drawn_links = {}
          /\ ctx'.hovered_link_id \notin DanglingDeclaredLinks]_vars

\* the provisional link targets the pin from a different start pin
FanPartialTargets ==
    /\ fan.partial_link # <<>>
    /\ fan.partial_link[1].end = fan.pin_id
    /\ fan.partial_link[1].start # fan.pin_id

\* C9: the fan-out count N of an end pin is the number of links declared in the
\* frame that end at the pin, plus one if the provisional link targets the pin
\* from a different start pin; for N >= 2 the link of index i (0 <= i < N) is
\* placed at the angle pi - (N-1)*pi/8 + i*pi/4, so that N = 4 gives 5, 7, 9 and
\* 11 times pi/8.
FanOutCountAndAngles ==
    /\ fan.link_count # <<>> =>
          fan.link_count[1] =
              Cardinality({id \in fan.declared : FanEndPin(id) = fan.pin_id})
                + (IF FanPartialTargets THEN 1 ELSE 0)
    /\ fan.angle # <<>> =>
          LET N == fan.link_count[1]
              i == fan.link_index[1]
          IN  /\ N >= 2 /\ i >= 0 /\ i < N
              /\ fan.angle[1] + (N - 1) = 8 + 2 * i
              /\ N = 4 => fan.angle[1] = <<5, 7, 9, 11>>[i + 1]

\* three declared links end at p2, the provisional link snaps to it from p1, and
\* the last of the four anchors has been placed
FanOfFour ==
    /\ fan.pin_id = "p2"
    /\ Cardinality({id \in fan.declared : FanEndPin(id) = "p2"}) = 3
    /\ FanPartialTargets
    /\ fan.link_count = <<4>>
    /\ fan.link_index = <<3>>
    /\ fan.angle = <<11>>

\* the link that the frame just completed resolved as hovered: one declared in
\* the frame, or one stored by the previous frame and purged at the end of this one
HoveredLinkInFrame ==
    IF ctx'.hovered_link_id \in DOMAIN ctx'.links THEN ctx'.links[ctx'.hovered_link_id]
    ELSE ctx.links[ctx'.hovered_link_id]

\* C7: in mode None, a frame in which the button is just pressed while link L is
\* hovered and the hovered pin is an endpoint of L carrying
\* EnableLinkDetachWithDragClick ends in mode LinkCreation with creation type
\* FromDetach, the other endpoint of L as start pin, detached_link() = L, and L
\* not handed to the painter in that frame.
PressOnLinkEndDetachesLink ==
    [][(/\ FrameStep
        /\ ~ctx'.panicked
        /\ ctx.click_interaction_type = "None"
        /\ ctx'.left_mouse_pressed
        /\ ctx'.hovered_link_id # None
        /\ ctx'.hovered_pin_id # None
        /\ ctx'.hovered_pin_id \in {HoveredLinkInFrame.start_pin_id,
                                    HoveredLinkInFrame.end_pin_id}
        /\ HasFlag(ctx'.pins[ctx'.hovered_pin_id].flags, EnableLinkDetachWithDragClick)) =>
          LET L == ctx'.hovered_link_id
              link == HoveredLinkInFrame
              far == IF ctx'.hovered_pin_id = link.start_pin_id THEN link.end_pin_id
                     ELSE link.start_pin_id
          IN  /\ ctx'.click_interaction_type = "LinkCreation"
              /\ ctx'.link_creation.link_creation_type = "FromDetach"
              /\ ctx'.link_creation.start_pin_id = far
              /\ ctx'.detached_link_id = L
              /\ L \notin ctx'.drawn_links]_vars

\* the link dragged from p3 of n3 has been released over p4 of n1
ReleasedOverInputPin ==
    /\ ~ctx.panicked
    /\ ctx.left_mouse_released
    /\ ctx.hovered_pin_id = "p4"
    /\ ctx.link_creation.link_creation_type = "Standard"
    /\ CreatedLink(ctx) = <<[start |-> "p3", end |-> "p4", from_snap |-> FALSE]>>

\* C2: whenever the LinkCreated flag is set, the start pin and the end pin recorded
\* for the creation are one Input and one Output pin, owned by different nodes.
CreatedLinkJoinsOutputToInput ==
    (~ctx.panicked /\ LinkCreatedFlag) =>
        LET start_pin_id == ctx.link_creation.start_pin_id
            end_pin_id == ctx.link_creation.end_pin_id
        IN  /\ start_pin_id \in DOMAIN ctx.pins
            /\ end_pin_id \in DOMAIN ctx.pins
            /\ {ctx.pins[start_pin_id].kind, ctx.pins[end_pin_id].kind}
                   = {"Input", "Output"}
            /\ ctx.pins[start_pin_id].parent_node_id # ctx.pins[end_pin_id].parent_node_id

\* a link detached from p2 is committed by snapping while the button is held
CreatedBySnapAfterDetach ==
    /\ ~ctx.panicked
    /\ LinkCreatedFlag
    /\ ctx.link_creation.link_creation_type = "FromDetach"
    /\ ctx.click_interaction_type = "LinkCreation"

\* a node that was selected has been purged with its pin while another node and
\* the link are still declared and kept
PurgedSelectedNode ==
    /\ ~ctx.panicked
    /\ Contains(ctx.selected_node_ids, "n1")
    /\ "n1" \notin DOMAIN ctx.nodes
    /\ "p1" \notin DOMAIN ctx.pins
    /\ "n2" \in DOMAIN ctx.nodes
    /\ "l1" \in DOMAIN ctx.links

\* a pin that the frame about to run finds neither stored nor declared
PinGone(p) == p \notin DOMAIN ctx.pins /\ p \notin DeclaredPins(host)

\* C15: while the mode is LinkCreation, a frame completes without error also
\* when the start pin of the creation, or the pin last resolved as hovered, has
\* stopped being declared and has been purged.
LinkCreationWithPurgedPinCompletes ==
    [][(/\ FrameStep
        /\ ctx.click_interaction_type = "LinkCreation"
        /\ \/ PinGone(ctx.link_creation.start_pin_id)
           \/ ctx.hovered_pin_id # None /\ PinGone(ctx.hovered_pin_id)) =>
          ~ctx'.panicked]_vars

\* the same for a purged start pin alone, in frames whose declared links all end
\* at stored pins
LinkCreationWithPurgedStartPinCompletes ==
    [][(/\ FrameStep
        /\ ctx.click_interaction_type = "LinkCreation"
        /\ PinGone(ctx.link_creation.start_pin_id)
        /\ ctx.hovered_pin_id = None
        /\ \A id \in DeclaredLinks(host) :
              HostLinkPins(id)[2] \in PinStoreAtAddLink) =>
          ~ctx'.panicked]_vars

\* the links that the frame about to run stores, by an earlier frame or by a
\* declaration of this one, with a start or end pin that it does not store
StoredLinksWithMissingPin ==
    {l \in DOMAIN ctx.links \cup DeclaredLinks(host) :
        LET pin_ids == IF l \in DeclaredLinks(host) THEN HostLinkPins(l)
                       ELSE <<ctx.links[l].start_pin_id, ctx.links[l].end_pin_id>>
        IN  pin_ids[1] \notin PinStoreAtAddLink \/ pin_ids[2] \notin PinStoreAtAddLink}

\* C16: in every frame a stored link whose start or end pin is not in the pin
\* store is not reported as the hovered link, is not put among the selected links
\* by box selection and is not drawn, and the frame completes normally.
LinkWithMissingPinIsSkippedAndFrameCompletes ==
    [][(FrameStep /\ StoredLinksWithMissingPin # {}) =>
          /\ ~ctx'.panicked
          /\ ctx'.hovered_link_id \notin StoredLinksWithMissingPin
          /\ ctx.click_interaction_type = "BoxSelection" =>
                Range(ctx'.selected_link_ids) \cap StoredLinksWithMissingPin = {}
          /\ ctx'.drawn_links \cap StoredLinksWithMissingPin = {}]_vars

\* the same for the frames that complete: the link is skipped by the hover test,
\* by box selection and by the draw pass
LinkWithMissingPinIsSkipped ==
    [][(FrameStep /\ StoredLinksWithMissingPin # {} /\ ~ctx'.panicked) =>
          /\ ctx'.hovered_link_id \notin StoredLinksWithMissingPin
          /\ ctx.click_interaction_type = "BoxSelection" =>
                Range(ctx'.selected_link_ids) \cap StoredLinksWithMissingPin = {}
          /\ ctx'.drawn_links \cap StoredLinksWithMissingPin = {}]_vars

\* the frame just completed took the mode from None to BoxSelection
BoxSelectionBegins ==
    /\ FrameStep
    /\ ~ctx'.panicked
    /\ ctx.click_interaction_type = "None"
    /\ ctx'.click_interaction_type = "BoxSelection"

\* C17: the mode changes from Idle to BoxSelection in a frame only if in that
\* frame the primary button was just pressed, no pin, node or link is hovered, the
\* pointer is inside the canvas and the pan trigger is not active, neither just
\* pressed nor held from an earlier frame; the anchor of the box is the pointer
\* position of the frame.
BoxSelectionBeginsOnlyWithoutPanTrigger ==
    [][BoxSelectionBegins =>
          /\ ctx'.left_mouse_pressed
          /\ ctx'.hovered_pin_id = None
          /\ ctx'.hovered_node_id = None
          /\ ctx'.hovered_link_id = None
          /\ ctx'.mouse_in_canvas
          /\ ~ctx'.alt_mouse_clicked
          /\ ~ctx'.alt_mouse_dragging
          /\ ctx'.box_selection.min = ctx'.mouse_pos]_vars

\* the same with a pan trigger that was not pressed in the frame, held or not
BoxSelectionBeginsOnlyWithoutPanClick ==
    [][BoxSelectionBegins =>
          /\ ctx'.left_mouse_pressed
          /\ ctx'.hovered_pin_id = None
          /\ ctx'.hovered_node_id = None
          /\ ctx'.hovered_link_id = None
          /\ ctx'.mouse_in_canvas
          /\ ~ctx'.alt_mouse_clicked
          /\ ctx'.box_selection.min = ctx'.mouse_pos]_vars

\* the pan trigger is active in the frame just completed
PanTriggerActive == ctx'.alt_mouse_clicked \/ ctx'.alt_mouse_dragging

\* C18 as the spec states it: while the mode is Panning and the pan trigger is
\* active, each frame adds its pointer delta to the pan offset; the first frame in
\* which the trigger is no longer active returns the mode to Idle and leaves the
\* offset unchanged; outside Panning mode the offset changes only through
\* reset_panning; panning never changes the origin of a node.
PanningEndsInIdle ==
    [][/\ (FrameStep /\ ~ctx'.panicked /\ ctx.click_interaction_type = "Panning") =>
             /\ IF PanTriggerActive
                THEN ctx'.panning = ctx.panning + ctx'.mouse_delta
                ELSE /\ ctx'.panning = ctx.panning
                     /\ ctx'.click_interaction_type = "None"
             /\ \A n \in DOMAIN ctx.nodes \cap DOMAIN ctx'.nodes :
                   ctx'.nodes[n].origin = ctx.nodes[n].origin
       /\ (ctx'.panning # ctx.panning /\ ctx.click_interaction_type # "Panning") =>
             ~FrameStep]_vars

\* C18: while the mode is Panning and the pan trigger is active, each frame adds
\* its pointer delta to the pan offset; the first frame in
\* which the trigger is no longer active leaves the offset unchanged and leaves
\* Panning for Idle, or, when the primary button was just pressed in that very
\* frame, for the interaction that the press starts from Idle; outside Panning
\* mode the offset changes only through reset_panning; panning never changes the
\* origin of a node.
PanningAccumulatesPointerDelta ==
    [][/\ (FrameStep /\ ~ctx'.panicked /\ ctx.click_interaction_type = "Panning") =>
             /\ IF PanTriggerActive
                THEN ctx'.panning = ctx.panning + ctx'.mouse_delta
                ELSE /\ ctx'.panning = ctx.panning
                     /\ \/ ctx'.click_interaction_type = "None"
                        \/ /\ ctx'.left_mouse_pressed
                           /\ ctx'.click_interaction_type
                                 \in {"Node", "Link", "LinkCreation", "BoxSelection"}
             /\ \A n \in DOMAIN ctx.nodes \cap DOMAIN ctx'.nodes :
                   ctx'.nodes[n].origin = ctx.nodes[n].origin
       /\ (ctx'.panning # ctx.panning /\ ctx.click_interaction_type # "Panning") =>
             ~FrameStep]_vars

\* the canvas has been panned by one cell and the pan button released
PannedAndReleased ==
    /\ ~ctx.panicked
    /\ host.edits = 0
    /\ ctx.panning = -CellSize
    /\ ctx.click_interaction_type = "None"
    /\ ~ctx.alt_mouse_clicked
    /\ ~ctx.alt_mouse_dragging

\* the frame just completed began in mode None and saw the primary button go
\* down while a pin was hovered
PressOnHoveredPin ==
    /\ FrameStep
    /\ ~ctx'.panicked
    /\ ctx.click_interaction_type = "None"
    /\ ctx'.left_mouse_pressed
    /\ ctx'.hovered_pin_id # None

\* the flags of a pin that the frame just completed had in its store
PinFlagsInFrame(p) ==
    IF p \in DOMAIN ctx'.pins THEN ctx'.pins[p].flags ELSE ctx.pins[p].flags

\* what the press on the hovered pin p does: it begins a link creation from p
\* (mode LinkCreation, start pin p, no end pin, type Standard, started_link_pin()
\* = p) if p is an output pin or a link is hovered, and no detach applies; it
\* leaves the mode and the selection alone if p is an input pin and no link is
\* hovered
PressOnPinOutcome ==
    LET p == ctx'.hovered_pin_id
        link_hovered == ctx'.hovered_link_id # None
        detach == link_hovered
                  /\ HasFlag(PinFlagsInFrame(p), EnableLinkDetachWithDragClick)
    IN  /\ ((PinKindInFrame(p) = "Output" \/ link_hovered) /\ ~detach) =>
              /\ ctx'.click_interaction_type = "LinkCreation"
              /\ ctx'.link_creation.start_pin_id = p
              /\ ctx'.link_creation.end_pin_id = None
              /\ ctx'.link_creation.link_creation_type = "Standard"
              /\ HasFlag(ctx'.element_state_change, LinkStarted)
        /\ (PinKindInFrame(p) = "Input" /\ ~link_hovered) =>
              /\ ctx'.click_interaction_type = "None"
              /\ ctx'.selected_node_ids = ctx.selected_node_ids
              /\ ctx'.selected_link_ids = ctx.selected_link_ids

\* C19: in mode Idle, a press of the primary button while pin p is hovered begins
\* a link creation if p is an output pin or a link is hovered, and no detach
\* applies: the mode is LinkCreation, the start pin is p, there is no end pin,
\* the type is Standard and started_link_pin() is p.  If p is an input pin and no
\* link is hovered the mode stays Idle and the selection is unchanged.
PressOnPinBeginsLinkCreation == [][PressOnHoveredPin => PressOnPinOutcome]_vars

\* the same for a hovered pin that the host declares in the frame
PressOnDeclaredPinBeginsLinkCreation ==
    [][(PressOnHoveredPin /\ ctx'.hovered_pin_id \in DeclaredPins(host)) =>
          PressOnPinOutcome]_vars

\* the frame just completed began in mode None and saw the primary button go
\* down while a node was hovered
PressOnHoveredNode ==
    /\ FrameStep
    /\ ~ctx'.panicked
    /\ ctx.click_interaction_type = "None"
    /\ ctx'.left_mouse_pressed
    /\ ctx'.hovered_node_id # None

\* C20: in mode Idle, a press of the primary button while node n is hovered, n
\* not being the node whose attribute receives the pointer-down, sets the mode
\* to NodeDrag; if n was not selected, the selected nodes become [n], the
\* selected links become empty and n becomes the last entry of the depth order,
\* the other nodes keeping their relative order; if n was selected, the
\* selection and the depth order are unchanged.  If n is the node whose
\* attribute receives the pointer-down, the mode and the selection are unchanged.
PressOnNodeBeginsNodeDrag ==
    [][PressOnHoveredNode =>
          LET n == ctx'.hovered_node_id
              depth_order == SeqKeep(DepthOrderAtHitTest, DOMAIN ctx'.nodes)
          IN  IF ctx'.interactive_node_id # n
              THEN /\ ctx'.click_interaction_type = "Node"
                   /\ IF ~Contains(ctx.selected_node_ids, n)
                      THEN /\ ctx'.selected_node_ids = <<n>>
                           /\ ctx'.selected_link_ids = <<>>
                           /\ ctx'.node_depth_order
                                 = Append(SeqFilterOut(depth_order, {n}), n)
                      ELSE /\ ctx'.selected_node_ids = ctx.selected_node_ids
                           /\ ctx'.selected_link_ids = ctx.selected_link_ids
                           /\ ctx'.node_depth_order = depth_order
              ELSE /\ ctx'.click_interaction_type = "None"
                   /\ ctx'.selected_node_ids = ctx.selected_node_ids
                   /\ ctx'.selected_link_ids = ctx.selected_link_ids]_vars

\* the press on n1, which was not selected and lay below n2 and n3, has selected
\* it alone and raised it above them
PressedNodeRaised ==
    /\ ~ctx.panicked
    /\ ctx.left_mouse_pressed
    /\ ctx.hovered_node_id = "n1"
    /\ ctx.interactive_node_id = None
    /\ ctx.click_interaction_type = "Node"
    /\ ctx.selected_node_ids = <<"n1">>
    /\ ctx.node_depth_order = <<"n2", "n3", "n1">>

\* the press on n1 went down on the attribute of its pin p1 and left the mode
\* and the selection alone
PressedOnAttribute ==
    /\ ~ctx.panicked
    /\ ctx.left_mouse_pressed
    /\ ctx.hovered_node_id = "n1"
    /\ ctx.interactive_node_id = "n1"
    /\ ctx.click_interaction_type = "None"

\* the frame just completed saw a press, outside a link creation and with no
\* detach modifier, that detached a link
LinkDetachedByPress ==
    /\ FrameStep
    /\ ~ctx'.panicked
    /\ ctx.click_interaction_type # "LinkCreation"
    /\ ctx'.left_mouse_pressed
    /\ ~ctx'.link_detach_with_modifier_click
    /\ ctx'.detached_link_id # None

\* the link that the frame just completed detached
DetachedLinkInFrame ==
    IF ctx'.detached_link_id \in DOMAIN ctx'.links THEN ctx'.links[ctx'.detached_link_id]
    ELSE ctx.links[ctx'.detached_link_id]

\* C22: a press without the detach modifier detaches link L only if the pin
\* whose EnableLinkDetachWithDragClick flag is read, the hovered pin, is one of
\* the two endpoints of L, and the creation then starts from the other endpoint
\* of L; a press on L while the hovered flagged pin is no endpoint of L does not
\* detach L.
DetachOnDragReadsFlagOfLinkEnd ==
    [][LinkDetachedByPress =>
          LET link == DetachedLinkInFrame
              p == ctx'.hovered_pin_id
          IN  /\ p \in {link.start_pin_id, link.end_pin_id}
              /\ HasFlag(ctx'.hovered_pin_flags, EnableLinkDetachWithDragClick)
              /\ ctx'.link_creation.start_pin_id
                    = (IF p = link.start_pin_id THEN link.end_pin_id
                       ELSE link.start_pin_id)]_vars

\* the links declared in the frame just completed that join the two pins of the
\* link it reports as created, the link being re-snapped into left out
DeclaredLinksJoiningCreatedPair ==
    DeclaredLinksBetween(ctx', CreatedLink(ctx')[1].start, CreatedLink(ctx')[1].end)
        \ {ctx'.snap_link_id}

\* C23: a link-created event is never reported for a pin pair that a link
\* declared in that frame already joins, other than the link being re-snapped
\* into, whether the drag started from the Output pin or from the Input pin.
CreatedLinkIsNeverDuplicate ==
    [][(/\ FrameStep
        /\ ~ctx'.panicked
        /\ ~CreatedLinkAborts(ctx')
        /\ CreatedLink(ctx') # <<>>) =>
          DeclaredLinksJoiningCreatedPair = {}]_vars

\* the same for the drags that started from the Output pin of the pair
CreatedLinkFromOutputIsNeverDuplicate ==
    [][(/\ FrameStep
        /\ ~ctx'.panicked
        /\ ~CreatedLinkAborts(ctx')
        /\ CreatedLink(ctx') # <<>>
        /\ CreatedLink(ctx')[1].start = ctx'.link_creation.start_pin_id) =>
          DeclaredLinksJoiningCreatedPair = {}]_vars

\* the frame just completed ran in LinkCreation with a link committed by snap to
\* pin Q and declared by the host, and its hovered pin is no longer Q
SnapTargetLeft ==
    /\ FrameStep
    /\ ~ctx'.panicked
    /\ ctx.click_interaction_type = "LinkCreation"
    /\ ctx.link_creation.end_pin_id # None
    /\ ctx'.snap_link_id # None
    /\ ctx'.hovered_pin_id # ctx.link_creation.end_pin_id

\* the hovered pin of the frame just completed is snap-eligible for the creation
\* and commits a link on snap
NewSnapTargetAutoCommits ==
    LET hp == ctx'.hovered_pin_id
        start == ctx.link_creation.start_pin_id
    IN  /\ hp # None
        /\ hp \in DOMAIN ctx'.pins /\ start \in DOMAIN ctx'.pins
        /\ ctx'.pins[hp].kind # ctx'.pins[start].kind
        /\ ctx'.pins[hp].parent_node_id # ctx'.pins[start].parent_node_id
        /\ DeclaredLinksBetween(ctx', start, hp) = {}
        /\ LinkCreationOnSnapEnabled(ctx'.pins[hp])

SnapLinkDetachedOverCanvas ==
    /\ ~ctx.panicked
    /\ ctx.click_interaction_type = "LinkCreation"
    /\ ctx.snap_link_id = "l2"
    /\ ctx.detached_link_id = "l2"
    /\ ctx.hovered_pin_id = None
    /\ ctx.link_creation.start_pin_id = "p3"
    /\ ctx.link_creation.end_pin_id = None

\* C25: after every end_frame the provisional link is present only if the mode
\* is LinkCreation; it is absent once a release has returned the mode to None.
PartialLinkOnlyInLinkCreation ==
    (~ctx.panicked /\ ctx.partial_link # <<>>) =>
        ctx.click_interaction_type = "LinkCreation"

\* a frame leaves a provisional link only when it began in LinkCreation
PartialLinkOnlyFromLinkCreationUpdate ==
    [][(FrameStep /\ ~ctx'.panicked /\ ctx'.partial_link # <<>>) =>
          ctx.click_interaction_type = "LinkCreation"]_vars

\* C26: after any end_frame the hovered link is none or a link declared in that
\* frame whose start and end pins were both declared in that frame; a link or a
\* pin declared only in the previous frame is never a hover candidate.
HoveredLinkIsDeclaredWithDeclaredPins ==
    (~ctx.panicked /\ ctx.hovered_link_id # None) =>
        /\ ctx.hovered_link_id \in DOMAIN ctx.links
        /\ ctx.links[ctx.hovered_link_id].start_pin_id \in DOMAIN ctx.pins
        /\ ctx.links[ctx.hovered_link_id].end_pin_id \in DOMAIN ctx.pins

\* the hovered link of a frame is one of the links stored when the frame resolves
\* it, those declared in this frame or in the previous one, with both pins stored
HoveredLinkIsStoredWithStoredPins ==
    [][(FrameStep /\ ~ctx'.panicked /\ ctx'.hovered_link_id # None) =>
          /\ ctx'.hovered_link_id \in DOMAIN ctx'.links \cup DOMAIN ctx.links
          /\ HoveredLinkInFrame.start_pin_id \in DOMAIN ctx'.pins \cup DOMAIN ctx.pins
          /\ HoveredLinkInFrame.end_pin_id \in DOMAIN ctx'.pins \cup DOMAIN ctx.pins]_vars

\* C27: after every end_frame the hovered pin and the hovered node are never both
\* present, and the hovered node and the hovered link are never both present; a
\* pin and a link may be hovered together.
HoveredNodeExcludesPinAndLink ==
    ~ctx.panicked =>
        /\ ~(ctx.hovered_pin_id # None /\ ctx.hovered_node_id # None)
        /\ ~(ctx.hovered_node_id # None /\ ctx.hovered_link_id # None)

\* the pointer is inside a node, on one of its pins and on a link: the pin and
\* the link are hovered together and the node is not
PinAndLinkHoveredOverNode ==
    /\ ~ctx.panicked
    /\ ctx.mouse_in_canvas
    /\ ctx.node_ids_overlapping_with_mouse # <<>>
    /\ ctx.hovered_pin_id # None
    /\ ctx.hovered_link_id # None
    /\ ctx.hovered_node_id = None

\* the pointer is inside a node and on no pin: the node is hovered, and the link
\* that passes under the pointer is not
NodeHoveredOverLink ==
    /\ ~ctx.panicked
    /\ ctx.mouse_in_canvas
    /\ ctx.hovered_node_id # None
    /\ ctx.hovered_pin_id = None
    /\ ctx.hovered_link_id = None
    /\ \E l \in DOMAIN ctx.links :
          /\ ctx.links[l].start_pin_id \in DOMAIN ctx.pins
          /\ ctx.links[l].end_pin_id \in DOMAIN ctx.pins
          /\ DistanceToLink(ctx.pins[ctx.links[l].start_pin_id].pos,
                            ctx.pins[ctx.links[l].end_pin_id].pos, ctx.mouse_pos)
                 < LinkHoverDistance

\* C28: after every end_frame every link in the link store has both of its pins
\* in the pin store, whatever the host declared.
StoredLinksHaveStoredPins ==
    ~ctx.panicked =>
        \A l \in DOMAIN ctx.links :
            /\ ctx.links[l].start_pin_id \in DOMAIN ctx.pins
            /\ ctx.links[l].end_pin_id \in DOMAIN ctx.pins

\* after every end_frame the stored links are the links declared in that frame,
\* with the pins they were declared with
StoredLinksAreDeclaredLinks ==
    [][(FrameStep /\ ~ctx'.panicked) =>
          /\ DOMAIN ctx'.links = DeclaredLinks(host)
          /\ \A l \in DOMAIN ctx'.links :
                <<ctx'.links[l].start_pin_id, ctx'.links[l].end_pin_id>> = HostLinkPins(l)]_vars

\* the context after the host has declared its nodes in the frame about to run;
\* the stores and the depth order do not depend on the pointer
NodesShown ==
    ShowNodes(BeginFrameCtx(ctx), host, host.nodes, Input(<<>>, FALSE, FALSE, {}, None))

\* the nodes that the frame about to run declares for the first time, in
\* declaration order
NodesDeclaredFirst ==
    SeqFilterOut(host.nodes, DOMAIN ctx.nodes)

\* C29: the nodes declared for the first time in a frame are appended to the
\* depth order in declaration order and the known nodes keep their relative
\* order; declaring a known node again does not change the depth order; the
\* declared origin is applied only on the first declaration.  A frame that
\* raises no node (no press, no box selection) ends with that order, less the
\* nodes it purges.
FirstDeclarationAppendsToDepthOrder ==
    [][(FrameStep /\ ~ctx'.panicked) =>
          /\ NodesShown.node_depth_order = ctx.node_depth_order \o NodesDeclaredFirst
          /\ \A n \in DOMAIN ctx.nodes \cap DeclaredNodes(host) :
                NodesShown.nodes[n].origin = ctx.nodes[n].origin
          /\ \A n \in Range(NodesDeclaredFirst) :
                NodesShown.nodes[n].origin = HostOrigin(n)
          /\ (~ctx'.left_mouse_pressed /\ ctx.click_interaction_type # "BoxSelection") =>
                ctx'.node_depth_order
                    = SeqKeep(ctx.node_depth_order \o NodesDeclaredFirst, DeclaredNodes(host))]_vars

\* n1 was raised above n2 and dragged away from its declared origin, and n3,
\* declared for the first time afterwards, is on top
NewNodeAppendedAboveRaisedNode ==
    /\ ~ctx.panicked
    /\ ctx.node_depth_order = <<"n2", "n1", "n3">>
    /\ ctx.nodes["n1"].origin # HostOrigin("n1")

\* the nodes that the frame just completed drags: the selected draggable nodes,
\* when the frame began in mode Node and the primary button is still held
DraggedNodes ==
    IF ctx.click_interaction_type = "Node" /\ ctx'.left_mouse_dragging
    THEN {n \in Range(ctx.selected_node_ids) \cap DOMAIN ctx.nodes : ctx.nodes[n].draggable}
    ELSE {}

\* C30: in a frame that begins in mode Node with the primary button still held,
\* the origin of every selected draggable node grows by the pointer delta of the
\* frame and the origin of every other node is unchanged; in no other mode does
\* the frame change the origin of a node.
NodeDragMovesSelectedNodesByDelta ==
    [][(FrameStep /\ ~ctx'.panicked) =>
          \A n \in DOMAIN ctx.nodes \cap DOMAIN ctx'.nodes :
              ctx'.nodes[n].origin
                  = ctx.nodes[n].origin + (IF n \in DraggedNodes THEN ctx'.mouse_delta ELSE 0)]_vars

\* n2 and n3, selected together, have been dragged one cell to the left, and n1,
\* not selected, has stayed where it was declared
TwoSelectedNodesDragged ==
    /\ ~ctx.panicked
    /\ ctx.click_interaction_type = "Node"
    /\ ctx.left_mouse_dragging
    /\ ctx.mouse_delta = -CellSize
    /\ Range(ctx.selected_node_ids) = {"n2", "n3"}
    /\ ctx.nodes["n2"].origin = HostOrigin("n2") - CellSize
    /\ ctx.nodes["n3"].origin = HostOrigin("n3") - CellSize
    /\ ctx.nodes["n1"].origin = HostOrigin("n1")

\* the frame just completed began in LinkCreation and saw the primary button
\* released
LinkCreationReleased ==
    /\ FrameStep
    /\ ~ctx'.panicked
    /\ ctx.click_interaction_type = "LinkCreation"
    /\ ctx'.left_mouse_released

\* C31: in the frame in which the primary button is released during
\* LinkCreation exactly one of LinkCreated and LinkDropped is set, never both
\* and never neither, also over a pin into which a snap link was already
\* committed; the mode is None after that frame.
ReleaseCreatesOrDropsExactlyOne ==
    [][LinkCreationReleased =>
          /\ HasFlag(ctx'.element_state_change, LinkCreated)
                # HasFlag(ctx'.element_state_change, LinkDropped)
          /\ ctx'.click_interaction_type = "None"]_vars

\* in that frame LinkCreated and LinkDropped are never both set, and the mode is
\* None afterwards
ReleaseNeverCreatesAndDrops ==
    [][LinkCreationReleased =>
          /\ ~(/\ HasFlag(ctx'.element_state_change, LinkCreated)
               /\ HasFlag(ctx'.element_state_change, LinkDropped))
          /\ ctx'.click_interaction_type = "None"]_vars

\* the click interaction update of the frame just completed left the mode it
\* began in: the primary button was not released and, in Panning, the pan
\* trigger is still active
ModeHeldThroughUpdate ==
    /\ FrameStep
    /\ ~ctx'.panicked
    /\ ctx.click_interaction_type # "None"
    /\ ~ctx'.left_mouse_released
    /\ ctx.click_interaction_type = "Panning" => PanTriggerActive

\* C32: every mode other than None is entered only from None: a frame that
\* begins in BoxSelection, Node, Link, LinkCreation or Panning and does not
\* return to None ends in the mode it began in.
ModesAreEnteredOnlyFromNone ==
    [][ModeHeldThroughUpdate =>
          ctx'.click_interaction_type \in {ctx.click_interaction_type, "None"}]_vars

\* the same for the modes that the primary button holds
PrimaryButtonModesAreKept ==
    [][(ModeHeldThroughUpdate /\ ctx.click_interaction_type # "Panning") =>
          ctx'.click_interaction_type \in {ctx.click_interaction_type, "None"}]_vars

\* Context::num_selected_nodes (lib.rs:260-262)
NumSelectedNodes(c) == Len(c.selected_link_ids)

\* Context::get_selected_nodes (lib.rs:264-266)
GetSelectedNodes(c) == c.selected_node_ids

\* C33: in every reachable state num_selected_nodes() equals the length of
\* get_selected_nodes(), whatever the number of selected links.
NumSelectedNodesIsLengthOfSelectedNodes ==
    NumSelectedNodes(ctx) = Len(GetSelectedNodes(ctx))

\* C34: after every end_frame every selected node is a node of the store and
\* every selected link is a link of the store: what is purged is also removed
\* from the selection.
SelectionIsStored ==
    ~ctx.panicked =>
        /\ Range(ctx.selected_node_ids) \subseteq DOMAIN ctx.nodes
        /\ Range(ctx.selected_link_ids) \subseteq DOMAIN ctx.links

\* a frame that selects by a press or by the box selection selects only nodes and
\* links that are stored when it runs
SelectionIsStoredWhenMade ==
    [][(/\ FrameStep
        /\ ~ctx'.panicked
        /\ \/ ctx'.selected_node_ids # ctx.selected_node_ids
           \/ ctx'.selected_link_ids # ctx.selected_link_ids) =>
          /\ Range(ctx'.selected_node_ids) \subseteq DOMAIN ctx'.nodes \cup DOMAIN ctx.nodes
          /\ Range(ctx'.selected_link_ids) \subseteq DOMAIN ctx'.links \cup DOMAIN ctx.links]_vars

\* C35: after every end_frame the depth order holds no id twice and its ids are
\* the ids of the node store, across node creation, purge, re-creation of a
\* purged id, node press and box-selection release.
DepthOrderIsPermutationOfStore ==
    ~ctx.panicked =>
        /\ \A i, j \in DOMAIN ctx.node_depth_order :
              ctx.node_depth_order[i] = ctx.node_depth_order[j] => i = j
        /\ Range(ctx.node_depth_order) = DOMAIN ctx.nodes

\* n1 was purged by the second frame and declared again in the third: it is back
\* in the store and on top of n2, with no node ever selected
PurgedNodeRecreatedOnTop ==
    /\ ~ctx.panicked
    /\ frames = 3
    /\ host.edits = MaxHostEdits + 1
    /\ host.nodes = <<"n2", "n1">>
    /\ ctx.node_depth_order = <<"n2", "n1">>
    /\ DOMAIN ctx.nodes = {"n1", "n2"}
    /\ ctx.selected_node_ids = <<>>

\* C36: after an end_frame in which the pointer is outside the canvas the hovered
\* pin, the hovered node and the hovered link are all none.
NothingHoveredOutsideCanvas ==
    (~ctx.panicked /\ frames > 0 /\ ~ctx.mouse_in_canvas) =>
        /\ ctx.hovered_pin_id = None
        /\ ctx.hovered_node_id = None
        /\ ctx.hovered_link_id = None

\* after such a frame the hovered node and the hovered link are none
NoNodeOrLinkHoveredOutsideCanvas ==
    (~ctx.panicked /\ frames > 0 /\ ~ctx.mouse_in_canvas) =>
        /\ ctx.hovered_node_id = None
        /\ ctx.hovered_link_id = None

\* C37: after any end_frame in which the primary button is not down and the pan
\* trigger is not active the mode is None, whatever mode was active before and
\* whatever is hovered.
ModeIsNoneWithoutButtons ==
    [][(/\ FrameStep
        /\ ~ctx'.panicked
        /\ ~(ctx'.left_mouse_pressed \/ ctx'.left_mouse_dragging)
        /\ ~PanTriggerActive) =>
          ctx'.click_interaction_type = "None"]_vars

\* the primary button has been released over the link l1, selected and still
\* hovered, with no pan trigger active, and the mode is None again
LinkSelectionReleasedOverLink ==
    /\ ~ctx.panicked
    /\ ctx.click_interaction_type = "None"
    /\ ctx.left_mouse_released
    /\ ~(ctx.alt_mouse_clicked \/ ctx.alt_mouse_dragging)
    /\ ctx.selected_link_ids = <<"l1">>
    /\ ctx.selected_node_ids = <<>>
    /\ ctx.hovered_link_id = "l1"

\* the frame just completed continued a link creation that had already reported
\* a created link to the pin recorded as its end
CreatedLinkAlreadyReported ==
    /\ FrameStep
    /\ ~ctx'.panicked
    /\ ctx.click_interaction_type = "LinkCreation"
    /\ ctx.link_creation.end_pin_id # None

\* C38: during one link-creation drag a created link for a pin pair is reported
\* in at most one frame, whether or not the host commits the link: staying
\* snapped to the same pin, and releasing over it, does not report the pair again.
CreatedLinkReportedOncePerDrag ==
    [][(CreatedLinkAlreadyReported /\ HasFlag(ctx'.element_state_change, LinkCreated)) =>
          <<ctx'.link_creation.start_pin_id, ctx'.link_creation.end_pin_id>>
              # <<ctx.link_creation.start_pin_id, ctx.link_creation.end_pin_id>>]_vars

\* the same while the button is held
CreatedLinkReportedOnceWhileHeld ==
    [][(/\ CreatedLinkAlreadyReported
        /\ ~ctx'.left_mouse_released
        /\ HasFlag(ctx'.element_state_change, LinkCreated)) =>
          <<ctx'.link_creation.start_pin_id, ctx'.link_creation.end_pin_id>>
              # <<ctx.link_creation.start_pin_id, ctx.link_creation.end_pin_id>>]_vars

\* C39: after any end_frame the hovered pin is none or a pin declared in that
\* frame, and so still stored after the purge; a pin declared only in an earlier
\* frame is never reported as hovered.
HoveredPinIsDeclaredInFrame ==
    (~ctx.panicked /\ ctx.hovered_pin_id # None) => ctx.hovered_pin_id \in DOMAIN ctx.pins

\* the same for the pin resolved by the hit test of a frame with the pointer
\* inside the canvas
ResolvedPinIsDeclaredInFrame ==
    [][(FrameStep /\ ~ctx'.panicked /\ ctx'.mouse_in_canvas /\ ctx'.hovered_pin_id # None) =>
          ctx'.hovered_pin_id \in DOMAIN ctx'.pins]_vars

\* the end pin of a created link reported after a frame is a pin declared in
\* that frame
CreatedLinkEndPinIsDeclaredInFrame ==
    [][(FrameStep /\ ~ctx'.panicked /\ HasFlag(ctx'.element_state_change, LinkCreated)) =>
          ctx'.link_creation.end_pin_id \in DOMAIN ctx'.pins]_vars

\* the pin resolved by the hit test of a frame with the pointer inside the canvas
\* was stored by the frame before or declared in this frame
ResolvedPinWasStoredOrDeclared ==
    [][(FrameStep /\ ~ctx'.panicked /\ ctx'.mouse_in_canvas /\ ctx'.hovered_pin_id # None) =>
          ctx'.hovered_pin_id \in DOMAIN ctx.pins \cup DOMAIN ctx'.pins]_vars

\* Context::started_link_pin (lib.rs:288-296)
StartedLinkPin(c) ==
    IF HasFlag(c.element_state_change, LinkStarted) THEN c.link_creation.start_pin_id
    ELSE None

\* Context::dropped_link (lib.rs:298-300)
DroppedLink(c) == c.dropped_link_id

\* Context::detached_link (lib.rs:324-326)
DetachedLink(c) == c.detached_link_id

\* the frame just completed could continue a link creation: one was in progress
\* when it began, or the primary button was clicked in it
LinkCreationInFrame ==
    ctx.click_interaction_type = "LinkCreation" \/ ctx'.left_mouse_pressed

\* C40: the event queries are one-frame pulses: what started_link_pin(),
\* created_link(), dropped_link() and detached_link() report after end_frame is an
\* event of that frame (a click for a started link, a link creation in progress
\* or begun for a created or detached link, a release of a creation from detach
\* for a dropped link), and nothing is carried over from the frame before.
EventQueriesAreOneFramePulses ==
    [][(FrameStep /\ ~ctx'.panicked) =>
          /\ StartedLinkPin(ctx') # None => ctx'.left_mouse_pressed
          /\ HasFlag(ctx'.element_state_change, LinkCreated) =>
                LinkCreationInFrame /\ ctx'.hovered_pin_id # None
          /\ DroppedLink(ctx') # None =>
                /\ ctx'.left_mouse_released
                /\ ctx.click_interaction_type = "LinkCreation"
                /\ ctx.link_creation.link_creation_type = "FromDetach"
                /\ DroppedLink(ctx') = ctx.link_creation.detached_link_id
          /\ DetachedLink(ctx') # None => LinkCreationInFrame
          /\ ~LinkCreationInFrame =>
                /\ StartedLinkPin(ctx') = None
                /\ ~HasFlag(ctx'.element_state_change, LinkCreated)
                /\ DroppedLink(ctx') = None
                /\ DetachedLink(ctx') = None]_vars

\* a link creation begun from p3 in an earlier frame is snapped to p2, the created
\* link was reported when it snapped, and after this frame, with the button still
\* held, none of the four queries reports anything
EventsReportedEarlierAreGone ==
    /\ ~ctx.panicked
    /\ ctx.click_interaction_type = "LinkCreation"
    /\ ctx.link_creation.start_pin_id = "p3"
    /\ ctx.link_creation.end_pin_id = "p2"
    /\ StartedLinkPin(ctx) = None
    /\ ~HasFlag(ctx.element_state_change, LinkCreated)
    /\ DroppedLink(ctx) = None
    /\ DetachedLink(ctx) = None

====
